---- MODULE Spec2Model ----
(***************************************************************************)
(* CircuitViewer (src/src/components/Layout.tsx, lines 168-720): the SVG   *)
(* net tracer, the trace highlight overlay, the search overlay and the     *)
(* hover handlers, as one state machine over the DOM of the diagram and    *)
(* the React state of the component.                                       *)
(*                                                                         *)
(* Coordinates are held in half units (every parsed number is doubled), so *)
(* that the rectangle's edge midpoints x + w/2 stay integers.              *)
(***************************************************************************)
EXTENDS Integers, Sequences, FiniteSets, TLC

(* ------------------------------------------------------------------ *)
(* Bounds of the model                                                 *)
(* ------------------------------------------------------------------ *)

\* the largest number of shapes of a diagram
MaxShapes == 4

\* additive clicks stop once connectionPoints would grow beyond this length
MaxPoints == 4

\* the largest offset, on each axis, between the ends of two lines whose
\* distance is put to the threshold
MaxOffset == 7

(* ------------------------------------------------------------------ *)
(* JavaScript values                                                   *)
(* ------------------------------------------------------------------ *)

\* getAttribute() of a missing attribute, an unset dataset entry
NULL == "<null>"

\* a value that `||` and `if (v)` treat as false
Falsy(v) == v = NULL \/ v = ""

\* a || b
Or(a, b) == IF Falsy(a) THEN b ELSE a

Range(s) == {s[i] : i \in 1..Len(s)}

Includes(s, x) == \E i \in 1..Len(s) : s[i] = x

(* ------------------------------------------------------------------ *)
(* Geometry: getElementCoordinates, arePointsClose, checkConnectivity  *)
(* ------------------------------------------------------------------ *)

\* default of arePointsClose's third parameter
threshold == 6

RECURSIVE PolyPointsPadded(_, _)
\* PolyPoints giving a last coordinate without partner the ordinate 0
PolyPointsPadded(coords, i) ==
    IF i > Len(coords) THEN <<>>
    ELSE IF i + 1 <= Len(coords)
         THEN <<(<<2 * coords[i], 2 * coords[i + 1]>>)>>
                 \o PolyPointsPadded(coords, i + 2)
         ELSE <<(<<2 * coords[i], 0>>)>>

\* polyline / polygon: the raw coordinate list consumed pairwise
RECURSIVE PolyPoints(_, _)
PolyPoints(coords, i) ==
    IF i > Len(coords) THEN <<>>
    ELSE IF i + 1 <= Len(coords)
         THEN <<(<<2 * coords[i], 2 * coords[i + 1]>>)>> \o PolyPoints(coords, i + 2)
         ELSE PolyPoints(coords, i + 2)

\* A token of a path's `d` attribute: a command letter (cmd) or a number
\* (cmd = "", num). Tokens are separated by white space or a comma.
Cmd(c) == [cmd |-> c, num |-> 0]

Num(n) == [cmd |-> "", num |-> n]

IsNum(d, i) == i <= Len(d) /\ d[i].cmd = ""

RECURSIVE PathPoints(_, _)
\* The matches of /[ML]?\s*-?\d+(\.\d+)?\s*,?\s*-?\d+(\.\d+)?/g from token i
\* on: an optional M or L, then two numbers. A match that holds two numbers
\* gives a point; the scan goes on behind the match, or at the next token
\* where nothing matches (a lone number matches at most by its own digits
\* and gives no point).
PathPoints(d, i) ==
    IF i > Len(d) THEN <<>>
    ELSE LET j == IF d[i].cmd \in {"M", "L"} THEN i + 1 ELSE i IN
         IF IsNum(d, j) /\ IsNum(d, j + 1)
         THEN <<(<<2 * d[j].num, 2 * d[j + 1].num>>)>> \o PathPoints(d, j + 2)
         ELSE PathPoints(d, i + 1)

\* the terminal points of an element, by tag name
getElementCoordinates(s) ==
    LET a == s.g[1]  b == s.g[2]  c == s.g[3]  d == s.g[4] IN
    CASE s.tag = "line" ->
            << <<2 * a, 2 * b>>, <<2 * c, 2 * d>> >>
      [] s.tag = "path" ->
            PathPoints(s.d, 1)
      [] s.tag = "circle" ->
            \* cx = a, cy = b, r = c
            << <<2 * a, 2 * b>>,
               <<2 * (a + c), 2 * b>>, <<2 * (a - c), 2 * b>>,
               <<2 * a, 2 * (b + c)>>, <<2 * a, 2 * (b - c)>> >>
      [] s.tag = "rect" ->
            \* x = a, y = b, width = c, height = d
            << <<2 * a, 2 * b>>, <<2 * (a + c), 2 * b>>,
               <<2 * a, 2 * (b + d)>>, <<2 * (a + c), 2 * (b + d)>>,
               <<2 * a + c, 2 * b>>, <<2 * a + c, 2 * (b + d)>>,
               <<2 * a, 2 * b + d>>, <<2 * (a + c), 2 * b + d>> >>
      [] s.tag \in {"polyline", "polygon"} ->
            PolyPoints(s.coords, 1)
      [] OTHER -> <<>>

\* arePointsClose with <= in place of <
arePointsCloseInclusive(p1, p2) ==
    (p1[1] - p2[1]) * (p1[1] - p2[1]) + (p1[2] - p2[2]) * (p1[2] - p2[2])
        <= (2 * threshold) * (2 * threshold)

\* sqrt(dx^2 + dy^2) < threshold, on half-unit coordinates
arePointsClose(p1, p2) ==
    (p1[1] - p2[1]) * (p1[1] - p2[1]) + (p1[2] - p2[2]) * (p1[2] - p2[2])
        < (2 * threshold) * (2 * threshold)

\* checkConnectivity's null
NoPoint == <<>>

\* checkConnectivity comparing only the first point of el1
checkFirstPointOnly(el1, el2) ==
    LET pts1 == getElementCoordinates(el1)
        pts2 == getElementCoordinates(el2)
    IN  IF pts1 # <<>> /\ \E j \in 1..Len(pts2) : arePointsClose(pts1[1], pts2[j])
        THEN pts1[1] ELSE NoPoint

\* checkConnectivity returning the point of el2 (p2) instead of that of el1
checkReturnsOther(el1, el2) ==
    LET pts1 == getElementCoordinates(el1)
        pts2 == getElementCoordinates(el2)
        hit(i) == \E j \in 1..Len(pts2) : arePointsClose(pts1[i], pts2[j])
        hits == {i \in 1..Len(pts1) : hit(i)}
        first == CHOOSE i \in hits : \A k \in hits : i <= k
        near == {j \in 1..Len(pts2) : arePointsClose(pts1[first], pts2[j])}
    IN  IF hits = {} THEN NoPoint
        ELSE pts2[CHOOSE j \in near : \A k \in near : j <= k]

\* the first point of el1 (in list order) close to some point of el2, or null
checkConnectivity(el1, el2) ==
    LET pts1 == getElementCoordinates(el1)
        pts2 == getElementCoordinates(el2)
        hit(i) == \E j \in 1..Len(pts2) : arePointsClose(pts1[i], pts2[j])
        hits == {i \in 1..Len(pts1) : hit(i)}
    IN  IF hits = {} THEN NoPoint
        ELSE pts1[CHOOSE i \in hits : \A k \in hits : i <= k]

(* ------------------------------------------------------------------ *)
(* Text: searchable strings are sequences of characters                *)
(* ------------------------------------------------------------------ *)

\* a missing field of a component descriptor, a missing id
UNDEFINED == <<"<undefined>">>

\* !text
Empty(t) == t = UNDEFINED \/ t = <<>>

\* one character of String.prototype.toLowerCase
LowerChar(c) ==
    CASE c = "A" -> "a" [] c = "B" -> "b" [] c = "C" -> "c" [] c = "D" -> "d"
      [] c = "E" -> "e" [] c = "F" -> "f" [] c = "G" -> "g" [] c = "H" -> "h"
      [] c = "I" -> "i" [] c = "J" -> "j" [] c = "K" -> "k" [] c = "L" -> "l"
      [] c = "M" -> "m" [] c = "N" -> "n" [] c = "O" -> "o" [] c = "P" -> "p"
      [] c = "Q" -> "q" [] c = "R" -> "r" [] c = "S" -> "s" [] c = "T" -> "t"
      [] c = "U" -> "u" [] c = "V" -> "v" [] c = "W" -> "w" [] c = "X" -> "x"
      [] c = "Y" -> "y" [] c = "Z" -> "z" [] OTHER -> c

toLowerCase(t) == [i \in 1..Len(t) |-> LowerChar(t[i])]

\* String.prototype.includes: q occurs in t as a contiguous run
StrIncludes(t, q) ==
    \E k \in 0..(Len(t) - Len(q)) : \A i \in 1..Len(q) : t[k + i] = q[i]

\* (field?.toLowerCase() || '')
LowerOrEmpty(f) == IF Empty(f) THEN <<>> ELSE toLowerCase(f)

(* ------------------------------------------------------------------ *)
(* The inputs: diagrams (svgContent) and descriptors (components)      *)
(* ------------------------------------------------------------------ *)

circuitBg == <<"c", "i", "r", "c", "u", "i", "t", "-", "b", "g">>

\* An element of the diagram: tag name, id, class, the id of the closest
\* enclosing <g> (NULL when there is none), the numeric attributes g
\* (line: x1 y1 x2 y2; circle: cx cy r; rect: x y width height), the raw
\* `points` list, and the stroke, stroke-width and fill attributes as parsed.
Shape(tag, id, cls, group, g, coords, stroke, strokeWidth, fill) ==
    [tag |-> tag, id |-> id, cls |-> cls, group |-> group, g |-> g,
     coords |-> coords, stroke |-> stroke, strokeWidth |-> strokeWidth,
     fill |-> fill]

\* The shapes diagrams are drawn from, in document order.
\*   1 the background rectangle #circuit-bg; its left edge midpoint (0,0) is
\*     the start of shape 2, its right edge midpoint (40,0) a point of shape 6
\*   2-4 three wires whose ends lie within 3 units of (10,0)
\*   5 the rectangle R1, whose left edge midpoint (20,0) is the end of shape 3
\*   6 the circle C1, whose left cardinal point (30,0) is R1's right edge
\*     midpoint
\*   7 a grid line of the group #background starting where shape 4 ends
ShapePool ==
    << Shape("rect", circuitBg, "", NULL, <<0, -20, 40, 40>>, <<>>,
             NULL, NULL, "#ffffff"),
       Shape("line", UNDEFINED, "wire", NULL, <<0, 0, 10, 0>>, <<>>,
             "#333", "2", NULL),
       Shape("line", UNDEFINED, "wire", NULL, <<10, 0, 20, 0>>, <<>>,
             NULL, NULL, NULL),
       Shape("polyline", UNDEFINED, "wire", NULL, <<0, 0, 0, 0>>,
             <<10, 3, 10, 15>>, "red", NULL, "none"),
       Shape("rect", <<"R", "1">>, "", NULL, <<20, -5, 10, 10>>, <<>>,
             "#333", "2", "none"),
       Shape("circle", <<"C", "1">>, "", NULL, <<35, 0, 5, 0>>, <<>>,
             NULL, NULL, NULL),
       Shape("line", UNDEFINED, "", "background", <<10, 15, 40, 15>>, <<>>,
             "#ccc", "1", NULL) >>

RECURSIVE SubSeqOf(_, _, _)
\* the elements of pool whose index is in S, in pool order
SubSeqOf(pool, S, i) ==
    IF i > Len(pool) THEN <<>>
    ELSE (IF i \in S THEN <<pool[i]>> ELSE <<>>) \o SubSeqOf(pool, S, i + 1)

\* every diagram of at most MaxShapes shapes of the pool
Diagrams ==
    {SubSeqOf(ShapePool, S, 1) :
        S \in {T \in SUBSET (1..Len(ShapePool)) : Cardinality(T) <= MaxShapes}}

\* The diagrams the viewer is exercised on: a wire apart from R1; a wire
\* ending on R1; the background rectangle between a wire and C1; the
\* background rectangle, a wire and a grid line; no shape at all.
ViewDiagrams ==
    { SubSeqOf(ShapePool, {2, 5}, 1),
      SubSeqOf(ShapePool, {3, 5}, 1),
      SubSeqOf(ShapePool, {1, 2, 6}, 1),
      SubSeqOf(ShapePool, {1, 4, 7}, 1),
      <<>> }

Component(designator, type, value, description) ==
    [designator |-> designator, type |-> type, value |-> value,
     description |-> description]

\* Descriptors from the extraction step. The third names no shape of any
\* diagram, the fourth has no designator.
ComponentPool ==
    << Component(<<"R", "1">>, <<"r", "e", "s">>, <<"1", "k">>, UNDEFINED),
       Component(<<"C", "1">>, <<"C", "a", "p">>, UNDEFINED, <<"d", "c">>),
       Component(<<"X", "9">>, <<"i", "c">>, UNDEFINED, UNDEFINED),
       Component(UNDEFINED, <<"r">>, UNDEFINED, UNDEFINED) >>

\* every sub-list of the pool
ComponentLists ==
    {SubSeqOf(ComponentPool, S, 1) : S \in SUBSET (1..Len(ComponentPool))}

\* What the user types into the search box.
Queries ==
    { <<>>, <<"r", "1">>, <<"R", "1">>, <<" ", "r", "1">>, <<"r", "1", " ">>,
      <<"r", " ", "1">>, <<"c">>, <<"1">>, <<"z">> }

\* The queries typed while the viewer is exercised.
ViewQueries == { <<>>, <<"r", "1">>, <<"c">> }

(* ------------------------------------------------------------------ *)
(* State                                                               *)
(* ------------------------------------------------------------------ *)

VARIABLES
    svg,                  \* the elements of the diagram, in document order
    components,           \* the components prop
    dom,                  \* per element: attributes, style, dataset
    searchQuery,          \* useState('')
    highlightedElements,  \* useState([]): element indices
    connectionPoints,     \* useState([])
    tooltip,              \* useState(null): index into components, 0 = null
    isDragging,           \* useState(false)
    pointer,              \* the listener-bearing element under the pointer, 0 = none
    trace,                \* history: the last run of traceNet (SpecTrace)
    seqPre,               \* history: the styles before the first highlight
                          \*   of the highlight sequence in progress
    clr,                  \* history: the clearHighlights run of the last event
    users,                \* localStorage kmrcl_users
    session,              \* localStorage kmrcl_current_user
    user,                 \* App: useState<User | null>(null)
    activeTab,            \* App: useState('dashboard')
    isVoiceAgentOpen,     \* App: useState(false)
    adminCode,            \* localStorage kmrcl_admin_code
    lastCall,             \* history: the last call of authService and its
                          \*   result (SpecAuth)
    codeSupplied,         \* history: loginAsAdmin was called with the stored
                          \*   code (SpecAuth)
    syncState,            \* driveService: let syncState
    calls,                \* per call of fetchDriveFiles by a page: the await
                          \*   it is suspended at, "idle" when not running
    voice                 \* VoiceAgent: its state, its serviceRef, the runs
                          \*   of startSession, the VoiceAgentService objects
                          \*   and what they have acquired

\* the state of the App around the pages
appVars == <<users, session, user, activeTab, isVoiceAgentOpen>>

\* the state of the CircuitViewer
viewerVars == <<svg, components, dom, searchQuery, highlightedElements,
                connectionPoints, tooltip, isDragging, pointer, trace, seqPre,
                clr>>

\* the state of the services behind the pages
authVars == <<adminCode, lastCall, codeSupplied>>

\* the state of driveService
driveVars == <<syncState, calls>>

serviceVars == <<authVars, driveVars, voice>>

vars == <<svg, components, dom, searchQuery, highlightedElements,
          connectionPoints, tooltip, isDragging, pointer, trace, seqPre, clr,
          users, session, user, activeTab, isVoiceAgentOpen, serviceVars>>

Elems == 1..Len(svg)

(* ------------------------------------------------------------------ *)
(* traceNet                                                            *)
(* ------------------------------------------------------------------ *)

\* svg.querySelectorAll('.wire, line, path, circle, rect, polyline, polygon')
Selected(s) ==
    \/ s.cls = "wire"
    \/ s.tag \in {"line", "path", "circle", "rect", "polyline", "polygon"}

RECURSIVE AllFrom(_)
AllFrom(i) ==
    IF i > Len(svg) THEN <<>>
    ELSE (IF Selected(svg[i]) THEN <<i>> ELSE <<>>) \o AllFrom(i + 1)

allElements == AllFrom(1)

\* el.id === 'circuit-bg' || el.tagName === 'g' || el.closest('g')?.id === 'background'
Excluded(s) ==
    s.id = circuitBg \/ s.tag = "g" \/ s.group = "background"

\* net.has(el)
NetHas(t, e) == Includes(t.net, e)

\* TraceStart without net.add(startElement)
TraceStartUnseeded(start) ==
    [net |-> <<>>, queue |-> <<start>>, points |-> <<>>,
     enq |-> <<start>>, deq |-> <<>>]

\* The locals of traceNet before the loop: the net and the queue hold the
\* start element. enq and deq log every push and every shift.
TraceStart(start) ==
    [net |-> <<start>>, queue |-> <<start>>, points |-> <<>>,
     enq |-> <<start>>, deq |-> <<>>]

\* Discover pushing the intersection twice
DiscoverPointTwice(t, e, x) ==
    [t EXCEPT !.net = Append(@, e), !.queue = Append(@, e),
              !.points = Append(Append(@, x), x), !.enq = Append(@, e)]

\* Discover without points.push(intersection)
DiscoverNoPoint(t, e, x) ==
    [t EXCEPT !.net = Append(@, e), !.queue = Append(@, e),
              !.enq = Append(@, e)]

\* net.add(el); queue.push(el); points.push(intersection)
Discover(t, e, x) ==
    [t EXCEPT !.net = Append(@, e), !.queue = Append(@, e),
              !.points = Append(@, x), !.enq = Append(@, e)]

RECURSIVE ScanUntilFirst(_, _, _)
\* ScanAll leaving the loop at the first element it discovers
ScanUntilFirst(t, current, k) ==
    IF k > Len(allElements) THEN t
    ELSE LET e == allElements[k] IN
         IF Excluded(svg[e]) THEN ScanUntilFirst(t, current, k + 1)
         ELSE IF NetHas(t, e) THEN ScanUntilFirst(t, current, k + 1)
         ELSE LET x == checkConnectivity(svg[current], svg[e]) IN
              IF x # NoPoint
              THEN Discover(t, e, x)
              ELSE ScanUntilFirst(t, current, k + 1)

RECURSIVE ScanDepthFirst(_, _, _)
\* ScanAll scanning on from each element as soon as it is discovered
ScanDepthFirst(t, current, k) ==
    IF k > Len(allElements) THEN t
    ELSE LET e == allElements[k] IN
         IF Excluded(svg[e]) THEN ScanDepthFirst(t, current, k + 1)
         ELSE IF NetHas(t, e) THEN ScanDepthFirst(t, current, k + 1)
         ELSE LET x == checkConnectivity(svg[current], svg[e]) IN
              IF x # NoPoint
              THEN ScanDepthFirst(ScanDepthFirst(Discover(t, e, x), e, 1),
                                  current, k + 1)
              ELSE ScanDepthFirst(t, current, k + 1)

RECURSIVE ScanAll(_, _, _)
\* for (const el of allElements) { ... }, from the k-th element on
ScanAll(t, current, k) ==
    IF k > Len(allElements) THEN t
    ELSE LET e == allElements[k] IN
         IF Excluded(svg[e]) THEN ScanAll(t, current, k + 1)
         ELSE IF NetHas(t, e) THEN ScanAll(t, current, k + 1)
         ELSE LET x == checkConnectivity(svg[current], svg[e]) IN
              IF x # NoPoint
              THEN ScanAll(Discover(t, e, x), current, k + 1)
              ELSE ScanAll(t, current, k + 1)

RECURSIVE Drain(_)
\* while (queue.length > 0) { const current = queue.shift(); ... }
Drain(t) ==
    IF t.queue = <<>> THEN t
    ELSE LET current == Head(t.queue) IN
         Drain(ScanAll([t EXCEPT !.queue = Tail(@), !.deq = Append(@, current)],
                       current, 1))

\* { elements: Array.from(net), terminals: points }, with the logs
traceNet(startElement) ==
    LET t == Drain(TraceStart(startElement)) IN
    [seed |-> startElement, elements |-> t.net, terminals |-> t.points,
     enq |-> t.enq, deq |-> t.deq]

NoTrace == [seed |-> 0, elements |-> <<>>, terminals |-> <<>>,
            enq |-> <<>>, deq |-> <<>>]

(* ------------------------------------------------------------------ *)
(* filteredComponents and the search highlighting effect               *)
(* ------------------------------------------------------------------ *)

\* MatchesQuery comparing the fields as written, not lower-cased
MatchesQueryCaseSensitive(c, lowerQ) ==
    LET raw(f) == IF Empty(f) THEN <<>> ELSE f IN
    \/ StrIncludes(raw(c.designator), lowerQ)
    \/ StrIncludes(raw(c.type), lowerQ)
    \/ StrIncludes(raw(c.value), lowerQ)
    \/ StrIncludes(raw(c.description), lowerQ)

\* the predicate of components.filter(...)
MatchesQuery(c, lowerQ) ==
    \/ StrIncludes(LowerOrEmpty(c.designator), lowerQ)
    \/ StrIncludes(LowerOrEmpty(c.type), lowerQ)
    \/ StrIncludes(LowerOrEmpty(c.value), lowerQ)
    \/ StrIncludes(LowerOrEmpty(c.description), lowerQ)

\* useMemo(..., [components, searchQuery]), as indices into components
filteredComponents(q) ==
    IF Empty(q) THEN [i \in 1..Len(components) |-> i]
    ELSE SelectSeq([i \in 1..Len(components) |-> i],
                   LAMBDA i : MatchesQuery(components[i], toLowerCase(q)))

\* QuerySelectorId giving the first element where no id matches
QuerySelectorIdOrFirst(id) ==
    LET found == {i \in Elems : svg[i].id = id} IN
    IF found = {} THEN (IF Len(svg) > 0 THEN 1 ELSE 0)
    ELSE CHOOSE i \in found : \A k \in found : i <= k

\* svgElement.querySelector(`#${id}`): the first element with that id, 0 = null
QuerySelectorId(id) ==
    LET found == {i \in Elems : svg[i].id = id} IN
    IF found = {} THEN 0 ELSE CHOOSE i \in found : \A k \in found : i <= k

\* el.dataset.X = value, whether or not a value is saved already
SaveAlways(saved, value) == value

\* if (!el.dataset.X) el.dataset.X = value
SaveOnce(saved, value) == IF Falsy(saved) THEN value ELSE saved

\* ResetSearchMatch removing the mark and leaving the styling
ResetMarkOnly(d) == [d EXCEPT !.searchMatch = FALSE]

\* step 1, for one element carrying data-search-match="true"
ResetSearchMatch(d) ==
    [d EXCEPT !.searchMatch = FALSE,
              !.stroke = IF ~Falsy(d.origStroke) /\ d.origStroke # "none"
                         THEN d.origStroke ELSE NULL,
              !.strokeWidth = IF ~Falsy(d.origWidth) THEN d.origWidth ELSE NULL,
              !.filter = "",
              !.opacity = "1"]

\* step 1: prevMatches.forEach(...)
ResetPrevMatches(dm) ==
    [i \in DOMAIN dm |-> IF dm[i].searchMatch THEN ResetSearchMatch(dm[i]) ELSE dm[i]]

\* filteredComponents.find(c => c.designator === id)
FilteredHas(q, id) ==
    \E k \in Range(filteredComponents(q)) : components[k].designator = id

\* step 2, for one element: dim it unless it matches
DimOrShow(d, q, id) ==
    [d EXCEPT !.opacity = IF ~Empty(q) /\ ~FilteredHas(q, id) THEN "0.3" ELSE "1"]

RECURSIVE DimAll(_, _, _)
\* step 2: allComponentIds.forEach(...), from the k-th descriptor on
DimAll(dm, q, k) ==
    IF k > Len(components) THEN dm
    ELSE LET id == components[k].designator
             el == IF Empty(id) THEN 0 ELSE QuerySelectorId(id) IN
         IF el = 0 THEN DimAll(dm, q, k + 1)
         ELSE DimAll([dm EXCEPT ![el] = DimOrShow(@, q, id)], q, k + 1)

\* step 3, for one element: save the originals once, then style it
ApplySearchMatch(d) ==
    [d EXCEPT !.origStroke = SaveOnce(@, Or(d.stroke, "none")),
              !.origWidth = SaveOnce(@, Or(d.strokeWidth, "1")),
              !.stroke = "#fbbf24",
              !.strokeWidth = "4",
              !.filter = "drop-shadow(0 0 8px #fbbf24)",
              !.searchMatch = TRUE,
              !.opacity = "1"]

RECURSIVE HighlightMatches(_, _, _)
\* step 3: filteredComponents.forEach(...), from the k-th match on
HighlightMatches(dm, fc, k) ==
    IF k > Len(fc) THEN dm
    ELSE LET id == components[fc[k]].designator
             el == IF Empty(id) THEN 0 ELSE QuerySelectorId(id) IN
         IF el = 0 THEN HighlightMatches(dm, fc, k + 1)
         ELSE HighlightMatches([dm EXCEPT ![el] = ApplySearchMatch(@)], fc, k + 1)

\* the effect of useEffect(..., [filteredComponents, searchQuery, components])
SearchEffect(dm, q) ==
    LET dimmed == DimAll(ResetPrevMatches(dm), q, 1) IN
    IF Empty(q) THEN dimmed
    ELSE HighlightMatches(dimmed, filteredComponents(q), 1)

(* ------------------------------------------------------------------ *)
(* clearHighlights and the highlighting pass of handleSvgClick         *)
(* ------------------------------------------------------------------ *)

\* ClearElement leaving the data-highlighted mark in place
ClearElementKeepMark(d) ==
    [d EXCEPT !.stroke = Or(d.origStroke, "black"),
              !.strokeWidth = Or(d.origWidth, "1"),
              !.filter = "",
              !.fill = IF ~Falsy(d.origFill) THEN d.origFill ELSE @]

\* the body of highlightedElements.forEach in clearHighlights
ClearElement(d) ==
    [d EXCEPT !.stroke = Or(d.origStroke, "black"),
              !.strokeWidth = Or(d.origWidth, "1"),
              !.filter = "",
              !.highlighted = FALSE,
              !.fill = IF ~Falsy(d.origFill) THEN d.origFill ELSE @]

RECURSIVE ClearFrom(_, _, _)
ClearFrom(dm, hl, k) ==
    IF k > Len(hl) THEN dm
    ELSE ClearFrom([dm EXCEPT ![hl[k]] = ClearElement(@)], hl, k + 1)

\* the DOM after clearHighlights()
clearHighlights(dm, hl) == ClearFrom(dm, hl, 1)

\* the body of result.elements.forEach for an element not yet highlighted
HighlightElement(d) ==
    [d EXCEPT !.origStroke = SaveOnce(@, Or(d.stroke, "black")),
              !.origWidth = SaveOnce(@, Or(d.strokeWidth, "1")),
              !.origFill = SaveOnce(@, Or(d.fill, "none")),
              !.stroke = "#00ff9d",
              !.strokeWidth = "3",
              !.filter = "drop-shadow(0 0 5px #00ff9d)",
              !.highlighted = TRUE]

RECURSIVE HighlightFrom(_, _, _)
\* result.elements.forEach(...): st holds the DOM and newHighlights
HighlightFrom(st, elements, k) ==
    IF k > Len(elements) THEN st
    ELSE LET e == elements[k] IN
         IF Includes(st.hl, e) THEN HighlightFrom(st, elements, k + 1)
         ELSE HighlightFrom([dm |-> [st.dm EXCEPT ![e] = HighlightElement(@)],
                             hl |-> Append(st.hl, e)], elements, k + 1)

(* ------------------------------------------------------------------ *)
(* Hover handlers                                                      *)
(* ------------------------------------------------------------------ *)

\* the descriptors whose listeners are attached to element e
ListenersOf(e) ==
    {k \in 1..Len(components) :
        ~Empty(components[k].designator)
        /\ QuerySelectorId(components[k].designator) = e}

\* handleMouseEnter, on the element
EnterElement(d) ==
    [d EXCEPT !.origOpacity = SaveOnce(@, Or(d.opacity, "1")),
              !.opacity = "0.7"]

\* handleMouseLeave, on the element
LeaveElement(d) ==
    [d EXCEPT !.opacity = IF ~Falsy(d.origOpacity) THEN d.origOpacity ELSE @]

(* ------------------------------------------------------------------ *)
(* Initial state: the component is mounted on a diagram                *)
(* ------------------------------------------------------------------ *)

\* an element as parsed from svgContent: nothing styled, nothing saved
ParsedElement(s) ==
    [stroke |-> s.stroke, strokeWidth |-> s.strokeWidth, fill |-> s.fill,
     searchMatch |-> FALSE, highlighted |-> FALSE,
     filter |-> "", opacity |-> "",
     origStroke |-> NULL, origWidth |-> NULL, origFill |-> NULL,
     origOpacity |-> NULL]

\* the stroke, stroke-width and fill attributes of an element
Style(d) == <<d.stroke, d.strokeWidth, d.fill>>

Snap(dm) == [i \in DOMAIN dm |-> Style(dm[i])]

NoSnap == <<>>

NoClear == [ran |-> FALSE, touched |-> {}, pre |-> NoSnap, after |-> <<>>]

\* the record of a clearHighlights run: the elements it touched, their
\* styles before the highlight sequence and their state after the run
Cleared(hl, pre, mid) ==
    [ran |-> TRUE, touched |-> Range(hl), pre |-> pre, after |-> mid]

(* ------------------------------------------------------------------ *)
(* Users, permissions and the session                                  *)
(* ------------------------------------------------------------------ *)

Permissions(driveBrowser, docAnalysis, metroRag, general, email, letter) ==
    [driveBrowser |-> driveBrowser, docAnalysis |-> docAnalysis,
     intelligenceHub |-> [metroRag |-> metroRag, general |-> general,
                          email |-> email, letter |-> letter]]

DEFAULT_USER_PERMISSIONS == Permissions(FALSE, FALSE, FALSE, FALSE, FALSE, FALSE)

FULL_ADMIN_PERMISSIONS == Permissions(TRUE, TRUE, TRUE, TRUE, TRUE, TRUE)

\* The permissions an administrator assigns to a user: none, one page each
\* (the Intelligence Hub by one of its modes), two pages, all.
PermissionSets ==
    { DEFAULT_USER_PERMISSIONS,
      Permissions(TRUE, FALSE, FALSE, FALSE, FALSE, FALSE),
      Permissions(FALSE, TRUE, FALSE, FALSE, FALSE, FALSE),
      Permissions(FALSE, FALSE, TRUE, FALSE, FALSE, FALSE),
      Permissions(FALSE, FALSE, FALSE, FALSE, TRUE, FALSE),
      Permissions(TRUE, FALSE, FALSE, TRUE, FALSE, FALSE),
      FULL_ADMIN_PERMISSIONS }

UserRecord(id, email, role, status, permissions) ==
    [id |-> id, email |-> email, role |-> role, status |-> status,
     permissions |-> permissions]

ADMIN_USER ==
    UserRecord("admin-001", "admin@kmrcl.com", "ADMIN", "APPROVED",
               FULL_ADMIN_PERMISSIONS)

ADMIN_CODE == "9799494321"

\* the number of fetchDriveFiles calls the pages have running at a time
MaxCalls == 3

\* the VoiceAgent before the panel is first opened: the effect of the
\* first render has run endSession with no service
Unmounted ==
    [status |-> "idle", serviceRef |-> 0, starts |-> <<>>, services |-> <<>>,
     contexts |-> {}, mics |-> {}, live |-> <<>>, waiting |-> {},
     closedEarly |-> FALSE]

\* no call of authService yet
NoCall == [op |-> "none", success |-> TRUE]

\* authService.init on a browser whose storage holds no admin code, and the
\* services as their modules leave them when loaded.
Booted ==
    /\ adminCode = ADMIN_CODE
    /\ lastCall = NoCall
    /\ codeSupplied = FALSE
    /\ syncState = [status |-> "IDLE", lastSynced |-> "null", message |-> ""]
    /\ calls = [c \in 1..MaxCalls |-> "idle"]
    /\ voice = Unmounted

\* null: no current user
NoUser == [role |-> "null"]

\* The viewer is part of the Doc Analysis page, shown here to the
\* administrator.
Hosted ==
    /\ users = <<ADMIN_USER>>
    /\ session = ADMIN_USER
    /\ user = ADMIN_USER
    /\ activeTab = "analysis"
    /\ isVoiceAgentOpen = FALSE

\* The first render, followed by the first run of the search effect.
Mounted(diagrams, lists) ==
    /\ svg \in diagrams
    /\ components \in lists
    /\ dom = SearchEffect([i \in 1..Len(svg) |-> ParsedElement(svg[i])], <<>>)
    /\ searchQuery = <<>>
    /\ highlightedElements = <<>>
    /\ connectionPoints = <<>>
    /\ tooltip = 0
    /\ isDragging = FALSE
    /\ pointer = 0
    /\ trace = NoTrace
    /\ seqPre = NoSnap
    /\ clr = NoClear

Init == Mounted(ViewDiagrams, {ComponentPool}) /\ Hosted /\ Booted

(* ------------------------------------------------------------------ *)
(* Events                                                              *)
(* ------------------------------------------------------------------ *)

\* onChange of the search box (or its clear button), then the search effect
SetSearchQuery(q) ==
    /\ ~isDragging
    /\ q # searchQuery
    /\ searchQuery' = q
    /\ dom' = SearchEffect(dom, q)
    /\ clr' = NoClear
    /\ UNCHANGED <<appVars, serviceVars>>
    /\ UNCHANGED <<svg, components, highlightedElements, connectionPoints,
                   tooltip, isDragging, pointer, trace, seqPre>>

\* the element under the pointer when `target` is clicked
PointerAt(target) ==
    IF target # 0 /\ ListenersOf(target) # {} THEN target ELSE 0

\* handleSvgClick on the <svg> root (target 0) or on #circuit-bg
ClickBackground(target) ==
    /\ ~isDragging
    /\ IF target = 0 THEN TRUE ELSE svg[target].id = circuitBg
    /\ pointer = PointerAt(target)
    /\ LET mid == clearHighlights(dom, highlightedElements) IN
       /\ dom' = mid
       /\ clr' = Cleared(highlightedElements, seqPre, mid)
    /\ highlightedElements' = <<>>
    /\ connectionPoints' = <<>>
    /\ seqPre' = NoSnap
    /\ UNCHANGED <<appVars, serviceVars>>
    /\ UNCHANGED <<svg, components, searchQuery, tooltip, isDragging, pointer,
                   trace>>

\* handleSvgClick on a shape; multi = e.shiftKey || e.ctrlKey
ClickShape(target, multi) ==
    /\ ~isDragging
    /\ svg[target].id # circuitBg
    /\ svg[target].tag \in {"line", "path", "circle", "rect", "polyline", "polygon"}
    /\ pointer = PointerAt(target)
    /\ LET mid == IF multi THEN dom
                  ELSE clearHighlights(dom, highlightedElements)
           result == traceNet(target)
           st == HighlightFrom([dm |-> mid,
                                hl |-> IF multi THEN highlightedElements ELSE <<>>],
                               result.elements, 1)
       IN  /\ multi => Len(connectionPoints) + Len(result.terminals) <= MaxPoints
           /\ IF Len(result.elements) > 0
              THEN /\ dom' = st.dm
                   /\ highlightedElements' = st.hl
                   /\ connectionPoints' =
                         IF multi THEN connectionPoints \o result.terminals
                         ELSE result.terminals
              ELSE /\ dom' = mid
                   /\ highlightedElements' = IF multi THEN highlightedElements ELSE <<>>
                   /\ connectionPoints' = IF multi THEN connectionPoints ELSE <<>>
           /\ clr' = IF multi THEN NoClear
                     ELSE Cleared(highlightedElements, seqPre, mid)
           /\ seqPre' = IF multi /\ highlightedElements # <<>> THEN seqPre
                        ELSE Snap(mid)
    /\ UNCHANGED <<appVars, serviceVars>>
    /\ UNCHANGED <<svg, components, searchQuery, tooltip, isDragging, pointer,
                   trace>>

\* mouseenter on an element that a descriptor names
MouseEnter(e) ==
    /\ ~isDragging
    /\ pointer = 0
    /\ ListenersOf(e) # {}
    /\ pointer' = e
    /\ tooltip' = CHOOSE k \in ListenersOf(e) : \A j \in ListenersOf(e) : j <= k
    /\ dom' = [dom EXCEPT ![e] = EnterElement(@)]
    /\ clr' = NoClear
    /\ UNCHANGED <<appVars, serviceVars>>
    /\ UNCHANGED <<svg, components, searchQuery, highlightedElements,
                   connectionPoints, isDragging, trace, seqPre>>

\* mouseleave on the element under the pointer
MouseLeave(e) ==
    /\ ~isDragging
    /\ pointer = e
    /\ ListenersOf(e) # {}
    /\ pointer' = 0
    /\ tooltip' = 0
    /\ dom' = [dom EXCEPT ![e] = LeaveElement(@)]
    /\ clr' = NoClear
    /\ UNCHANGED <<appVars, serviceVars>>
    /\ UNCHANGED <<svg, components, searchQuery, highlightedElements,
                   connectionPoints, isDragging, trace, seqPre>>

\* handleMouseDown on the canvas
MouseDown ==
    /\ ~isDragging
    /\ isDragging' = TRUE
    /\ clr' = NoClear
    /\ UNCHANGED <<appVars, serviceVars>>
    /\ UNCHANGED <<svg, components, dom, searchQuery, highlightedElements,
                   connectionPoints, tooltip, pointer, trace, seqPre>>

\* handleMouseUp (onMouseUp and onMouseLeave of the canvas)
MouseUp ==
    /\ isDragging
    /\ isDragging' = FALSE
    /\ UNCHANGED <<appVars, serviceVars>>
    /\ UNCHANGED <<svg, components, dom, searchQuery, highlightedElements,
                   connectionPoints, tooltip, pointer, trace, seqPre, clr>>

\* The viewer. Typing, clicks and hover happen with the button released.
Next ==
    \/ \E q \in ViewQueries : SetSearchQuery(q)
    \/ \E t \in {0} \cup Elems : ClickBackground(t)
    \/ \E t \in Elems, multi \in BOOLEAN : ClickShape(t, multi)
    \/ \E e \in Elems : MouseEnter(e)
    \/ \E e \in Elems : MouseLeave(e)
    \/ MouseDown
    \/ MouseUp

Spec == Init /\ [][Next]_vars

(* ------------------------------------------------------------------ *)
(* traceNet alone, on every diagram and every seed                     *)
(* ------------------------------------------------------------------ *)

InitTrace == Mounted(Diagrams, {ComponentPool}) /\ Hosted /\ Booted

\* one call traceNet(startElement)
RunTrace(startElement) ==
    /\ trace' = traceNet(startElement)
    /\ UNCHANGED <<appVars, serviceVars>>
    /\ UNCHANGED <<svg, components, dom, searchQuery, highlightedElements,
                   connectionPoints, tooltip, isDragging, pointer, seqPre, clr>>

NextTrace == \E e \in Elems : RunTrace(e)

SpecTrace == InitTrace /\ [][NextTrace]_vars

(* ------------------------------------------------------------------ *)
(* Search and hover alone, on R1 and C1, for every descriptor list     *)
(* ------------------------------------------------------------------ *)

InitSearch ==
    Mounted({SubSeqOf(ShapePool, {5, 6}, 1)}, ComponentLists) /\ Hosted /\ Booted

NextSearch ==
    \/ \E q \in Queries : SetSearchQuery(q)
    \/ \E e \in Elems : MouseEnter(e)
    \/ \E e \in Elems : MouseLeave(e)

SpecSearch == InitSearch /\ [][NextSearch]_vars

(* ------------------------------------------------------------------ *)
(* Properties of traceNet (SpecTrace)                                  *)
(* ------------------------------------------------------------------ *)

\* two points are closer than the threshold (half units: 2 * 6 = 12)
Near(p, q) ==
    (p[1] - q[1]) * (p[1] - q[1]) + (p[2] - q[2]) * (p[2] - q[2]) < 144

\* some terminal point of a is closer than the threshold to one of b
Linked(a, b) ==
    \E p \in Range(getElementCoordinates(svg[a])),
       q \in Range(getElementCoordinates(svg[b])) : Near(p, q)

\* b is neither the background shape, nor a group, nor of the background group
Participates(b) ==
    /\ svg[b].id # circuitBg
    /\ svg[b].tag # "g"
    /\ svg[b].group # "background"

RECURSIVE Closure(_)
\* the least set containing S and every participating shape linked to a member
Closure(S) ==
    LET N == S \cup {b \in Elems : Participates(b) /\ \E a \in S : Linked(a, b)}
    IN  IF N = S THEN S ELSE Closure(N)

NoDuplicates(s) == \A i, j \in 1..Len(s) : i # j => s[i] # s[j]

\* C1: traceNet returns exactly the maximal net: the seed and every shape
\* reachable from it through a chain of non-excluded shapes, each linked to
\* the one before it by a pair of terminal points closer than the threshold.
C1_MaximalNet ==
    trace.seed # 0 => Range(trace.elements) = Closure({trace.seed})

\* a net with a member that is not linked to the seed itself, beside a
\* shape that is linked to the seed and left out (the background rectangle)
C1_Witness ==
    /\ trace.seed # 0
    /\ \E e \in Range(trace.elements) : ~Linked(trace.seed, e)
    /\ \E b \in Elems : Linked(trace.seed, b) /\ ~Includes(trace.elements, b)

\* C2 as stated: every shape with a point within the threshold of a point
\* of the seed is in the net traced from the seed.
C2_SymmetryAllShapes ==
    trace.seed # 0 =>
        \A b \in Elems : Linked(trace.seed, b) => Includes(trace.elements, b)

\* C2, amended: every non-excluded shape with a point within the threshold of
\* a point of the seed is in the net traced from the seed; with the roles of
\* the two shapes exchanged this is the symmetry of connectivity.
C2_Symmetry ==
    trace.seed # 0 =>
        \A b \in Elems :
            Participates(b) /\ Linked(trace.seed, b) => Includes(trace.elements, b)

\* a trace from a participating seed whose only link to another
\* participating shape is by its second point
C2_Witness ==
    /\ trace.seed # 0
    /\ Participates(trace.seed)
    /\ \E b \in Range(trace.elements) :
          /\ b # trace.seed
          /\ Linked(trace.seed, b)
          /\ checkFirstPointOnly(svg[trace.seed], svg[b]) = NoPoint

\* C7: a trace never visits a shape twice: no shape is pushed twice, none is
\* shifted twice, and the returned list holds no shape twice.
C7_VisitedOnce ==
    trace.seed # 0 =>
        /\ NoDuplicates(trace.enq)
        /\ NoDuplicates(trace.deq)
        /\ NoDuplicates(trace.elements)
        /\ Range(trace.deq) = Range(trace.enq)

\* three shapes with near-coincident points, each linked to both others,
\* all in one net
C7_Witness ==
    /\ Len(trace.elements) = 3
    /\ \A a, b \in Range(trace.elements) : Linked(a, b)

(* ------------------------------------------------------------------ *)
(* Properties of the highlight overlay (Spec)                          *)
(* ------------------------------------------------------------------ *)

\* C3: a clearHighlights run restores the stroke, stroke-width and fill of
\* every shape it touches to the values they had before the first highlight
\* of the sequence it ends, missing attributes included.
C3_StyleRoundTrip ==
    clr.ran => \A i \in clr.touched : Style(clr.after[i]) = clr.pre[i]

\* C4: after a clearHighlights run no shape it touched keeps a saved
\* original stroke, width or fill.
C4_ClearForgetsSave ==
    clr.ran =>
        \A i \in clr.touched :
            /\ clr.after[i].origStroke = NULL
            /\ clr.after[i].origWidth = NULL
            /\ clr.after[i].origFill = NULL

\* the stroke, stroke-width and glow the trace overlay writes
TraceStyle(d) == <<d.stroke, d.strokeWidth, d.filter>>

\* the styling of a search match
SearchStyled(d) ==
    /\ d.stroke = "#fbbf24"
    /\ d.strokeWidth = "4"
    /\ d.filter = "drop-shadow(0 0 8px #fbbf24)"

\* C5: the overlays are cleared independently: a query change leaves the
\* stroke, stroke-width and glow of every trace-highlighted shape as they
\* were, and a clearHighlights run leaves every shape it touches that is
\* still marked as a search match with its search-match styling.
C5_OverlaysIndependent ==
    [][ /\ searchQuery' # searchQuery =>
              \A i \in Range(highlightedElements) :
                  TraceStyle(dom'[i]) = TraceStyle(dom[i])
        /\ clr'.ran =>
              \A i \in clr'.touched :
                  clr'.after[i].searchMatch => SearchStyled(clr'.after[i])
      ]_vars

\* the saved stroke is the stroke attribute as parsed, or one of the two
\* defaults the passes use for a missing attribute
TrueOriginal(i) ==
    /\ dom[i].origStroke \in
          {NULL, Or(svg[i].stroke, "black"), Or(svg[i].stroke, "none")}
    /\ dom[i].origWidth \in {NULL, Or(svg[i].strokeWidth, "1")}
    /\ dom[i].origFill \in {NULL, Or(svg[i].fill, "none")}

\* C6: a saved original stroke, stroke-width or fill is written once: no
\* later pass (additive re-trace, trace over a search match, search over a
\* traced shape) overwrites it, and it is never a highlight colour or width.
C6_SavedOnce ==
    [][ \A i \in Elems :
          /\ dom[i].origStroke # NULL => dom'[i].origStroke = dom[i].origStroke
          /\ dom[i].origWidth # NULL => dom'[i].origWidth = dom[i].origWidth
          /\ dom[i].origFill # NULL => dom'[i].origFill = dom[i].origFill
          /\ TrueOriginal(i)'
      ]_vars

\* a search match that was traced afterwards: both passes went over it
C6_Witness ==
    \E i \in Elems :
        /\ dom[i].searchMatch
        /\ dom[i].highlighted
        /\ dom[i].stroke = "#00ff9d"
        /\ dom[i].origStroke = svg[i].stroke

\* a shape that some descriptor addresses by its designator
Addressed(i) ==
    \E k \in 1..Len(components) :
        /\ ~Empty(components[k].designator)
        /\ components[k].designator = svg[i].id

\* C8: with an empty query and no shape under the pointer every shape
\* addressed by a descriptor is undimmed and none is marked as a match.
C8_EmptyQueryUndimmed ==
    Empty(searchQuery) /\ pointer = 0 =>
        \A i \in Elems :
            Addressed(i) => dom[i].opacity = "1" /\ ~dom[i].searchMatch

(* ------------------------------------------------------------------ *)
(* Properties of the search (SpecSearch)                               *)
(* ------------------------------------------------------------------ *)

\* t with leading, trailing and repeated spaces removed
RECURSIVE Collapse(_, _)
Collapse(t, afterSpace) ==
    IF t = <<>> THEN <<>>
    ELSE IF Head(t) = " "
         THEN IF afterSpace \/ \A i \in 1..Len(t) : t[i] = " "
              THEN Collapse(Tail(t), TRUE)
              ELSE <<" ">> \o Collapse(Tail(t), TRUE)
         ELSE <<Head(t)>> \o Collapse(Tail(t), FALSE)

\* q occurs in t: t = prefix \o q \o suffix
Occurs(q, t) ==
    \E a, b \in 0..Len(t) : a <= b /\ SubSeq(t, a + 1, b) = q

\* q occurs in the designator, type, value or description of c, lower-cased
OccursInFields(q, c) ==
    \E f \in {c.designator, c.type, c.value, c.description} :
        f # UNDEFINED /\ Occurs(q, toLowerCase(f))

\* the descriptors of filteredComponents, as a set of indices
MatchSet == Range(filteredComponents(searchQuery))

\* C9 as stated: a descriptor matches exactly when the lower-cased and
\* whitespace-collapsed query occurs in one of its lower-cased fields.
C9_MatchNormalized ==
    \A k \in 1..Len(components) :
        k \in MatchSet <=>
            OccursInFields(Collapse(toLowerCase(searchQuery), TRUE), components[k])

\* C9, amended: a descriptor matches exactly when the lower-cased query, its
\* whitespace kept, occurs in one of its lower-cased fields (a missing field
\* holds nothing; the empty query occurs in every descriptor).
C9_MatchLowerCased ==
    \A k \in 1..Len(components) :
        k \in MatchSet <=>
            \/ searchQuery = <<>>
            \/ OccursInFields(toLowerCase(searchQuery), components[k])

\* an upper-case query that matches some descriptors and not others
C9_Witness ==
    /\ searchQuery # <<>>
    /\ toLowerCase(searchQuery) # searchQuery
    /\ MatchSet # {}
    /\ MatchSet # 1..Len(components)

\* some descriptor naming shape i matches query q
ShapeMatches(i, q) ==
    \E k \in 1..Len(components) :
        /\ components[k].designator = svg[i].id
        /\ OccursInFields(toLowerCase(q), components[k])

\* C10: after a change to a non-empty query every addressed shape that does
\* not match is dimmed, bears no search-match mark, stroke or glow, and, if
\* it was no match before, has its stroke and stroke-width as before; every
\* addressed shape that matches is marked, styled and undimmed; and no shape
\* at all keeps the mark of an earlier query.
C10_SearchOverlay ==
    [][ searchQuery' # searchQuery /\ searchQuery' # <<>> =>
          \A i \in Elems :
              /\ Addressed(i) /\ ShapeMatches(i, searchQuery') =>
                    /\ dom'[i].searchMatch
                    /\ SearchStyled(dom'[i])
                    /\ dom'[i].opacity = "1"
              /\ Addressed(i) /\ ~ShapeMatches(i, searchQuery') =>
                    /\ dom'[i].opacity = "0.3"
                    /\ dom'[i].stroke # "#fbbf24"
                    /\ dom'[i].filter # "drop-shadow(0 0 8px #fbbf24)"
                    /\ ~dom[i].searchMatch =>
                          /\ dom'[i].stroke = dom[i].stroke
                          /\ dom'[i].strokeWidth = dom[i].strokeWidth
              /\ dom'[i].searchMatch => Addressed(i) /\ ShapeMatches(i, searchQuery')
      ]_vars

\* a shape that matched an earlier query is dimmed and unstyled while
\* another shape is the match of the present one
C10_Witness ==
    /\ searchQuery # <<>>
    /\ \E i, j \in Elems :
          /\ Addressed(i) /\ ~ShapeMatches(i, searchQuery)
          /\ dom[i].origStroke # NULL
          /\ dom[i].opacity = "0.3"
          /\ ~dom[i].searchMatch
          /\ dom[j].searchMatch /\ ShapeMatches(j, searchQuery)

(* ------------------------------------------------------------------ *)
(* Which shapes take part in a trace                                   *)
(* ------------------------------------------------------------------ *)

\* the target test of handleSvgClick: a traceable tag, not #circuit-bg
Accepted(e) ==
    /\ svg[e].id # circuitBg
    /\ svg[e].tag \in {"line", "path", "circle", "rect", "polyline", "polygon"}

\* C11: the net of a trace started from a shape the click handler accepts
\* holds neither the background shape, nor a shape of the background group,
\* nor a grouping container, be it the seed or a discovered member.
C11_NoExcludedInNet ==
    trace.seed # 0 /\ Accepted(trace.seed) =>
        \A e \in Range(trace.elements) : ~Excluded(svg[e])

\* what the loop does guarantee: no discovered member is an excluded shape
C11_NoExcludedDiscovered ==
    trace.seed # 0 =>
        \A e \in Range(trace.elements) : e # trace.seed => ~Excluded(svg[e])

(* ------------------------------------------------------------------ *)
(* Multi-select and the background click (Spec)                        *)
(* ------------------------------------------------------------------ *)

\* C12: after a click with shift or ctrl the highlighted set is the earlier
\* highlighted set united with the new net and no earlier highlighted shape
\* loses its highlight; after a click without them the highlighted set is
\* the new net only, and every shape outside it carries no highlight and has
\* the stroke, stroke-width and fill it had before it was highlighted.
C12_MultiSelect ==
    [][ \A t \in Elems, multi \in BOOLEAN :
          ClickShape(t, multi) =>
            LET net == Range(traceNet(t).elements) IN
            IF multi
            THEN /\ Range(highlightedElements') = Range(highlightedElements) \cup net
                 /\ \A i \in Range(highlightedElements) :
                       /\ dom'[i].highlighted
                       /\ TraceStyle(dom'[i]) = TraceStyle(dom[i])
            ELSE /\ Range(highlightedElements') = net
                 /\ \A i \in Elems \ net :
                       /\ ~dom'[i].highlighted
                       /\ i \in Range(highlightedElements) =>
                             Style(dom'[i]) = seqPre[i]
      ]_vars

\* the part of C12 on the highlighted set and the highlight marks alone
C12_HighlightedSet ==
    [][ \A t \in Elems, multi \in BOOLEAN :
          ClickShape(t, multi) =>
            LET net == Range(traceNet(t).elements) IN
            /\ Range(highlightedElements') =
                  (IF multi THEN Range(highlightedElements) ELSE {}) \cup net
            /\ NoDuplicates(highlightedElements')
            /\ \A i \in Elems :
                  /\ i \in Range(highlightedElements') <=> dom'[i].highlighted
                  /\ i \in net => dom'[i].highlighted
                  /\ multi /\ i \in Range(highlightedElements) =>
                        TraceStyle(dom'[i]) = TraceStyle(dom[i])
                  /\ ~dom'[i].highlighted =>
                        dom'[i].filter # "drop-shadow(0 0 5px #00ff9d)"
      ]_vars

\* C13: a click on the <svg> root or on #circuit-bg, on a diagram with or
\* without shapes, runs no trace and clears the highlights: afterwards
\* highlightedElements and connectionPoints are empty, no shape carries the
\* highlight mark or the highlight glow, and no shape was newly highlighted.
C13_BackgroundClears ==
    [][ \A t \in {0} \cup Elems :
          ClickBackground(t) =>
            /\ highlightedElements' = <<>>
            /\ connectionPoints' = <<>>
            /\ \A i \in Range(highlightedElements) : ~dom'[i].highlighted
            /\ \A i \in Elems :
                  /\ ~dom'[i].highlighted
                  /\ dom'[i].filter # "drop-shadow(0 0 5px #00ff9d)"
                  /\ i \notin Range(highlightedElements) => dom'[i] = dom[i]
      ]_vars

\* the state after a background click that cleared two highlighted shapes
\* and their connection point
C13_Witness ==
    /\ clr.ran
    /\ Cardinality(clr.touched) >= 2
    /\ highlightedElements = <<>>
    /\ connectionPoints = <<>>
    /\ \A i \in clr.touched : ~dom[i].highlighted /\ dom[i].origStroke # NULL

(* ------------------------------------------------------------------ *)
(* traceNet one loop iteration at a time (SpecLoop)                    *)
(* ------------------------------------------------------------------ *)

\* The locals of a call of traceNet, from the history kept in `trace`: the
\* queue holds what was pushed and not yet shifted.
Locals(tr) ==
    [net |-> tr.elements,
     queue |-> SubSeq(tr.enq, Len(tr.deq) + 1, Len(tr.enq)),
     points |-> tr.terminals, enq |-> tr.enq, deq |-> tr.deq]

Packed(seed, t) ==
    [seed |-> seed, elements |-> t.net, terminals |-> t.points,
     enq |-> t.enq, deq |-> t.deq]

\* queue.length > 0 in a call that has started
Running(tr) == tr.seed # 0 /\ Locals(tr).queue # <<>>

\* Iterate reading queue[0] without shifting it
IterateNoShift(t) ==
    ScanAll(t, Head(t.queue), 1)

\* one iteration of the while loop: shift, then scan allElements
Iterate(t) ==
    LET current == Head(t.queue) IN
    ScanAll([t EXCEPT !.queue = Tail(@), !.deq = Append(@, current)], current, 1)

\* traceNet(startElement) up to the loop; calls do not overlap
CallTrace(startElement) ==
    /\ ~Running(trace)
    /\ trace' = Packed(startElement, TraceStart(startElement))
    /\ UNCHANGED <<appVars, serviceVars>>
    /\ UNCHANGED <<svg, components, dom, searchQuery, highlightedElements,
                   connectionPoints, tooltip, isDragging, pointer, seqPre, clr>>

\* one iteration of the loop of the call in progress
LoopStep ==
    /\ Running(trace)
    /\ \E t \in {Iterate(Locals(trace))} : trace' = Packed(trace.seed, t)
    /\ UNCHANGED <<appVars, serviceVars>>
    /\ UNCHANGED <<svg, components, dom, searchQuery, highlightedElements,
                   connectionPoints, tooltip, isDragging, pointer, seqPre, clr>>

NextLoop ==
    \/ \E e \in Elems : CallTrace(e)
    \/ LoopStep

\* The loop is synchronous code: once entered it keeps running.
SpecLoop == InitTrace /\ [][NextLoop]_vars /\ WF_vars(LoopStep)

\* C14: every trace terminates: no shape is shifted twice, so there is at
\* most one shift per shape of the diagram, and every call in progress
\* reaches an empty queue, with the result traceNet returns to the click
\* handler, in which all that was pushed has been shifted.
C14_Terminates ==
    /\ [](trace.seed # 0 =>
            /\ NoDuplicates(trace.deq)
            /\ Len(trace.deq) <= Len(svg))
    /\ [](Running(trace) =>
            <>(IF trace.seed = 0 \/ Running(trace) THEN FALSE
               ELSE /\ trace.deq = trace.enq
                    /\ trace = traceNet(trace.seed)))

\* a call that has returned after four iterations
C14_Witness ==
    /\ trace.seed # 0
    /\ ~Running(trace)
    /\ Len(trace.deq) = 4
    /\ Len(svg) = 4

(* ------------------------------------------------------------------ *)
(* traceNet on shapes of every kind (SpecGeometry)                     *)
(* ------------------------------------------------------------------ *)

\* a <path> element with the tokens of its `d` attribute
Path(id, cls, group, d, stroke, strokeWidth, fill) ==
    [tag |-> "path", id |-> id, cls |-> cls, group |-> group,
     g |-> <<0, 0, 0, 0>>, coords |-> <<>>, d |-> d,
     stroke |-> stroke, strokeWidth |-> strokeWidth, fill |-> fill]

\* Shapes of every kind, in document order.
\*   1 the rectangle R1 at (0,0), 10 wide and 10 high
\*   2 a line from R1's top edge midpoint (5,0) up to (5,-10)
\*   3 the circle C1 of centre (0,0) and radius 5
\*   4 a line from C1's right cardinal point (5,0) to (15,0)
\*   5 the path "M 30 0 C 40 0 40 20 60 20": one cubic curve from (30,0) to
\*     (60,20) with the control points (40,0) and (40,20)
\*   6 a line from the control point (40,20), which the curve does not
\*     pass through, to (40,30)
\*   7 an ellipse of class wire centred on the end (15,0) of shape 4
\*   8 a <g class="wire"> container
\*   9 the polygon "15,0 25,0 25", whose last coordinate has no partner
\*  10 the path "M 25 0 L 30 0 H 35 Z" from shape 9 to the start of shape 5
GeometryPool ==
    << Shape("rect", <<"R", "1">>, "", NULL, <<0, 0, 10, 10>>, <<>>,
             "#333", "2", "none"),
       Shape("line", UNDEFINED, "wire", NULL, <<5, 0, 5, -10>>, <<>>,
             "#333", "2", NULL),
       Shape("circle", <<"C", "1">>, "", NULL, <<0, 0, 5, 0>>, <<>>,
             NULL, NULL, NULL),
       Shape("line", UNDEFINED, "wire", NULL, <<5, 0, 15, 0>>, <<>>,
             "#333", "2", NULL),
       Path(UNDEFINED, "wire", NULL,
            << Cmd("M"), Num(30), Num(0),
               Cmd("C"), Num(40), Num(0), Num(40), Num(20), Num(60), Num(20) >>,
            "#333", "2", "none"),
       Shape("line", UNDEFINED, "wire", NULL, <<40, 20, 40, 30>>, <<>>,
             "#333", "2", NULL),
       Shape("ellipse", UNDEFINED, "wire", NULL, <<15, 0, 3, 2>>, <<>>,
             "#333", "2", "none"),
       Shape("g", UNDEFINED, "wire", NULL, <<0, 0, 0, 0>>, <<>>,
             NULL, NULL, NULL),
       Shape("polygon", UNDEFINED, "", NULL, <<0, 0, 0, 0>>, <<15, 0, 25, 0, 25>>,
             "#333", NULL, "none"),
       Path(UNDEFINED, "wire", NULL,
            << Cmd("M"), Num(25), Num(0), Cmd("L"), Num(30), Num(0),
               Cmd("H"), Num(35), Cmd("Z") >>,
            "#333", "2", "none") >>

\* every diagram of at most MaxShapes shapes of the geometry pool
GeometryDiagrams ==
    {SubSeqOf(GeometryPool, S, 1) :
        S \in {T \in SUBSET (1..Len(GeometryPool)) : Cardinality(T) <= MaxShapes}}

InitGeometry == Mounted(GeometryDiagrams, {ComponentPool}) /\ Hosted /\ Booted

SpecGeometry == InitGeometry /\ [][NextTrace]_vars

(* ------------------------------------------------------------------ *)
(* Properties of the geometry extractor (SpecGeometry)                 *)
(* ------------------------------------------------------------------ *)

\* the points that the move and line commands of a path name: an M or L
\* followed by two numbers
MoveLinePoints(d) ==
    { <<2 * d[i + 1].num, 2 * d[i + 2].num>> :
        i \in {k \in 1..Len(d) :
                 d[k].cmd \in {"M", "L"} /\ IsNum(d, k + 1) /\ IsNum(d, k + 2)} }

\* the terminals of a shape when a path has those of its M and L commands only
MoveLineTerminals(s) ==
    IF s.tag = "path" THEN MoveLinePoints(s.d)
    ELSE Range(getElementCoordinates(s))

\* C15: the point list of a path holds only points of its move and line
\* commands, never the numeric arguments of a curve command, and no shape
\* joins a net through such an argument: every discovered member of a net
\* is within the threshold of another member by move/line terminals.
C15_CurveArgsNoPoints ==
    trace.seed # 0 =>
        /\ \A e \in Elems :
              svg[e].tag = "path" =>
                  Range(getElementCoordinates(svg[e])) \subseteq MoveLinePoints(svg[e].d)
        /\ \A b \in Range(trace.elements) \ {trace.seed} :
              \E a \in Range(trace.elements) \ {b} :
                  \E p \in MoveLineTerminals(svg[a]), q \in MoveLineTerminals(svg[b]) :
                      Near(p, q)

\* the point (x, y) of the diagram, given twice its coordinates
Half(x2, y2) == <<x2, y2>>

\* C16: the extractor returns the terminal list of the shape's kind: a line
\* its two endpoints; a circle five points, the centre and centre plus or
\* minus the radius on each axis; a rectangle eight points, the corners and
\* the edge midpoints; a polyline or polygon one point per complete pair of
\* coordinates, in order; an element of a kind it does not know no point.
\* A shape of an unknown kind is never discovered by a trace, and a trace
\* from it ends with that shape alone.
C16_TerminalsByKind ==
    /\ \A e \in Elems :
          LET s == svg[e]
              pts == getElementCoordinates(s)
              a == s.g[1]  b == s.g[2]  c == s.g[3]  d == s.g[4]
          IN  /\ s.tag = "line" =>
                    pts = << Half(2 * a, 2 * b), Half(2 * c, 2 * d) >>
              /\ s.tag = "circle" =>
                    /\ Len(pts) = 5
                    /\ pts[1] = Half(2 * a, 2 * b)
                    /\ Range(pts) = { Half(2 * a, 2 * b),
                                      Half(2 * a + 2 * c, 2 * b),
                                      Half(2 * a - 2 * c, 2 * b),
                                      Half(2 * a, 2 * b + 2 * c),
                                      Half(2 * a, 2 * b - 2 * c) }
              /\ s.tag = "rect" =>
                    /\ Len(pts) = 8
                    /\ Range(pts) =
                          { Half(2 * a + i * c, 2 * b + j * d) :
                              i \in 0..2, j \in 0..2 } \ { Half(2 * a + c, 2 * b + d) }
              /\ s.tag \in {"polyline", "polygon"} =>
                    /\ Len(pts) = Len(s.coords) \div 2
                    /\ \A k \in 1..Len(pts) :
                          pts[k] = Half(2 * s.coords[2 * k - 1], 2 * s.coords[2 * k])
              /\ s.tag \notin {"line", "path", "circle", "rect", "polyline", "polygon"} =>
                    pts = <<>>
    /\ trace.seed # 0 =>
          /\ \A m \in Range(trace.elements) \ {trace.seed} :
                svg[m].tag \in {"line", "path", "circle", "rect", "polyline", "polygon"}
          /\ svg[trace.seed].tag \notin
                {"line", "path", "circle", "rect", "polyline", "polygon"} =>
                    trace.elements = <<trace.seed>> /\ trace.terminals = <<>>

\* a net traced from a line that holds a circle and the polygon with the
\* odd coordinate, beside an ellipse drawn on the line's end and left out
C16_Witness ==
    /\ trace.seed # 0
    /\ svg[trace.seed].tag = "line"
    /\ \E m \in Range(trace.elements) : svg[m].tag = "circle"
    /\ \E m \in Range(trace.elements) :
          svg[m].tag = "polygon" /\ Len(svg[m].coords) % 2 = 1
    /\ \E e \in Elems : svg[e].tag = "ellipse" /\ ~Includes(trace.elements, e)

(* ------------------------------------------------------------------ *)
(* Scenarios                                                           *)
(* ------------------------------------------------------------------ *)

\* two lines laid end to end: the second endpoint of a is the first of b
\* and no other two of their points are within the threshold
EndToEnd(a, b) ==
    LET pa == getElementCoordinates(a)
        pb == getElementCoordinates(b)
    IN  /\ a.tag = "line" /\ b.tag = "line"
        /\ pa[2] = pb[1]
        /\ \A i, j \in 1..2 : Near(pa[i], pb[j]) => i = 2 /\ j = 1

\* C17 (SpecTrace): for two lines L1, L2 laid end to end the trace from L1
\* returns the shapes in the order [L1, L2] and the shared endpoint as the
\* only terminal; with L1 (0,0)-(10,0) and L2 (10,0)-(20,0) that is (10,0).
C17_EndToEndLines ==
    /\ trace.seed = 1 /\ Len(svg) = 2 =>
          (IF EndToEnd(svg[1], svg[2])
           THEN /\ trace.elements = <<1, 2>>
                /\ trace.terminals = << <<2 * svg[1].g[3], 2 * svg[1].g[4]>> >>
           ELSE TRUE)
    /\ trace.seed = 1 /\ Len(svg) = 2 =>
          (IF svg[1].tag = "line" /\ svg[1].g = <<0, 0, 10, 0>>
              /\ svg[2].tag = "line" /\ svg[2].g = <<10, 0, 20, 0>>
           THEN /\ trace.elements = <<1, 2>>
                /\ trace.terminals = << <<20, 0>> >>
           ELSE TRUE)

\* scenario A traced from L1
C17_Witness ==
    /\ trace.seed = 1
    /\ Len(svg) = 2
    /\ EndToEnd(svg[1], svg[2])
    /\ svg[1].g = <<0, 0, 10, 0>>
    /\ svg[2].g = <<10, 0, 20, 0>>
    /\ Len(trace.elements) = 2

\* scenario B: the rectangle R1 and the line L1 from its top edge midpoint
ScenarioB == SubSeqOf(GeometryPool, {1, 2}, 1)

\* scenario D: the circle C1 and the line L1 from its right cardinal point
ScenarioD == SubSeqOf(GeometryPool, {3, 4}, 1)

\* an endpoint of the line a is a point of the silhouette of the solid b
OnSilhouette(a, b) ==
    /\ svg[a].tag = "line"
    /\ svg[b].tag \in {"rect", "circle"}
    /\ Participates(b)
    /\ Range(getElementCoordinates(svg[a]))
          \cap Range(getElementCoordinates(svg[b])) # {}

\* C18 (SpecGeometry): a line with an endpoint on a silhouette terminal of a
\* rectangle or circle is traced together with it, from either shape. In
\* scenario B the trace from L1 returns [L1, R1] with the terminal (5,0),
\* R1's top edge midpoint; in scenario D the trace from either shape
\* contains the other.
C18_SilhouetteTerminals ==
    trace.seed # 0 =>
        /\ \A a, b \in Elems :
              OnSilhouette(a, b) /\ trace.seed \in {a, b} =>
                  Includes(trace.elements, a) /\ Includes(trace.elements, b)
        /\ (IF svg = ScenarioB /\ trace.seed = 2
            THEN /\ trace.elements = <<2, 1>>
                 /\ trace.terminals = << <<10, 0>> >>
                 /\ getElementCoordinates(svg[1])[5] = <<10, 0>>
            ELSE TRUE)
        /\ (IF svg = ScenarioD
            THEN Range(trace.elements) = {1, 2}
            ELSE TRUE)

\* scenario B traced from L1
C18_Witness ==
    /\ svg = ScenarioB
    /\ trace.seed = 2
    /\ Includes(trace.elements, 1)
    /\ trace.terminals # <<>>

(* ------------------------------------------------------------------ *)
(* Descriptors and shapes that do not meet (Spec)                      *)
(* ------------------------------------------------------------------ *)

IsVisible(id, currentUser) ==
    LET isAdmin == currentUser.role = "ADMIN"
        perms == currentUser.permissions
    IN  CASE id = "dashboard" -> isAdmin
          [] id = "drive" -> isAdmin \/ perms.driveBrowser
          [] id = "intelligence" ->
                \/ isAdmin
                \/ perms.intelligenceHub.email
                \/ perms.intelligenceHub.general
                \/ perms.intelligenceHub.letter
                \/ perms.intelligenceHub.metroRag
          [] id = "analysis" -> isAdmin \/ perms.docAnalysis
          [] id = "settings" -> TRUE
          [] OTHER -> FALSE

\* Layout: allNavItems.filter(item => item.isVisible), as a set of ids
navItems(currentUser) ==
    {id \in {"dashboard", "drive", "intelligence", "analysis", "settings"} :
        IsVisible(id, currentUser)}

\* the tab handleLogin and the session restore choose
InitialTab(u) == IF u.role = "ADMIN" THEN "dashboard" ELSE "analysis"

\* The page is loaded: the state of App is new, and the effect of the first
\* render restores the session that localStorage holds.
Reload ==
    /\ user' = session
    /\ activeTab' = IF session # NoUser THEN InitialTab(session) ELSE "dashboard"
    /\ isVoiceAgentOpen' = FALSE
    /\ <<user', activeTab', isVoiceAgentOpen'>> # <<user, activeTab, isVoiceAgentOpen>>
    /\ UNCHANGED <<users, session>>
    /\ UNCHANGED <<viewerVars, serviceVars>>

\* Login page: authService.loginAsAdmin with the right code, then handleLogin
HandleAdminLogin ==
    /\ user = NoUser
    /\ \E k \in 1..Len(users) :
          /\ users[k].role = "ADMIN"
          /\ \A j \in 1..(k - 1) : users[j].role # "ADMIN"
          /\ LET admin == [users[k] EXCEPT !.permissions = FULL_ADMIN_PERMISSIONS] IN
             /\ users' = [users EXCEPT ![k] = admin]
             /\ session' = admin
             /\ user' = admin
             /\ activeTab' = InitialTab(admin)
    /\ UNCHANGED isVoiceAgentOpen
    /\ UNCHANGED <<viewerVars, serviceVars>>

\* Login page: authService.loginAsUser(email of users[k]), then handleLogin
HandleUserLogin(k) ==
    /\ user = NoUser
    /\ users[k].status \notin {"PENDING", "REJECTED"}
    /\ session' = users[k]
    /\ user' = users[k]
    /\ activeTab' = InitialTab(users[k])
    /\ UNCHANGED <<users, isVoiceAgentOpen>>
    /\ UNCHANGED <<viewerVars, serviceVars>>

\* handleLogout
HandleLogout ==
    /\ user # NoUser
    /\ session' = NoUser
    /\ user' = NoUser
    /\ UNCHANGED <<users, activeTab, isVoiceAgentOpen>>
    /\ UNCHANGED <<viewerVars, serviceVars>>

\* a click on an item of the navigation: onTabChange(item.id)
TabChange(id) ==
    /\ user # NoUser
    /\ id \in navItems(user)
    /\ id # activeTab
    /\ activeTab' = id
    /\ UNCHANGED <<users, session, user, isVoiceAgentOpen>>
    /\ UNCHANGED <<viewerVars, serviceVars>>

\* onToggleVoice (the microphone button), onClose of the VoiceAgent
SetVoiceAgentOpen(open) ==
    /\ user # NoUser
    /\ open # isVoiceAgentOpen
    /\ isVoiceAgentOpen' = open
    /\ UNCHANGED <<users, session, user, activeTab>>
    /\ UNCHANGED <<viewerVars, serviceVars>>

\* the tool calls the voice agent makes
ToolNames == {"selectDocument", "startAnalysis", "draftEmail", "other"}

\* handleToolCall(name, args); found: findBestMatchingFile(args.fileName)
HandleToolCall(name, found) ==
    /\ user # NoUser
    /\ isVoiceAgentOpen
    /\ activeTab' =
          CASE name = "selectDocument" ->
                  IF found THEN "intelligence" ELSE "analysis"
            [] name = "startAnalysis" -> "analysis"
            [] name = "draftEmail" -> "intelligence"
            [] OTHER -> activeTab
    /\ isVoiceAgentOpen' = IF name = "draftEmail" THEN FALSE ELSE isVoiceAgentOpen
    /\ UNCHANGED <<users, session, user>>
    /\ UNCHANGED <<viewerVars, serviceVars>>

\* handleChatWithFile, from a file of the Drive Browser page
HandleChatWithFile ==
    /\ user # NoUser
    /\ activeTab = "drive"
    /\ activeTab' = "intelligence"
    /\ UNCHANGED <<users, session, user, isVoiceAgentOpen>>
    /\ UNCHANGED <<viewerVars, serviceVars>>

\* The page is loaded with no session, the store holding the administrator
\* and one registered user of any status and any assigned permissions.
InitApp ==
    /\ Mounted({<<>>}, {<<>>})
    /\ \E status \in {"PENDING", "APPROVED", "REJECTED"}, p \in PermissionSets :
          users = <<ADMIN_USER, UserRecord("u1", "u1@kmrcl.com", "USER", status, p)>>
    /\ session = NoUser
    /\ user = NoUser
    /\ activeTab = "dashboard"
    /\ isVoiceAgentOpen = FALSE
    /\ Booted

NextApp ==
    \/ Reload
    \/ HandleAdminLogin
    \/ \E k \in 1..Len(users) : HandleUserLogin(k)
    \/ HandleLogout
    \/ \E id \in {"dashboard", "drive", "intelligence", "analysis", "settings"} :
          TabChange(id)
    \/ \E open \in BOOLEAN : SetVoiceAgentOpen(open)
    \/ \E name \in ToolNames, found \in BOOLEAN : HandleToolCall(name, found)
    \/ HandleChatWithFile

SpecApp == InitApp /\ [][NextApp]_vars

\* C20: the page shown to a session that is not an administrator's is
\* Settings or a page whose permission is set for that user, and the
\* Dashboard is shown to administrators only.
C20_PageWithinPermissions ==
    user # NoUser /\ user.role # "ADMIN" =>
        /\ activeTab # "dashboard"
        /\ \/ activeTab = "settings"
           \/ /\ activeTab = "drive"
              /\ user.permissions.driveBrowser
           \/ /\ activeTab = "analysis"
              /\ user.permissions.docAnalysis
           \/ /\ activeTab = "intelligence"
              /\ \/ user.permissions.intelligenceHub.metroRag
                 \/ user.permissions.intelligenceHub.general
                 \/ user.permissions.intelligenceHub.email
                 \/ user.permissions.intelligenceHub.letter

\* the part of C20 on the Dashboard alone
C20_DashboardAdminOnly ==
    user # NoUser /\ activeTab = "dashboard" => user.role = "ADMIN"

(* ------------------------------------------------------------------ *)
(* Order and terminals of a trace (SpecTrace)                          *)
(* ------------------------------------------------------------------ *)

RECURSIVE HopFrom(_, _, _, _)
\* the number of links on a shortest chain from the seed to e through
\* participating shapes, -1 when there is none; frontier: the shapes at n links
HopFrom(seen, frontier, n, e) ==
    IF e \in frontier THEN n
    ELSE IF frontier = {} THEN -1
    ELSE LET next == {b \in Elems \ seen :
                         Participates(b) /\ \E a \in frontier : Linked(a, b)}
         IN  HopFrom(seen \cup next, next, n + 1, e)

Hop(e) == HopFrom({trace.seed}, {trace.seed}, 0, e)

\* C21: the returned list is in breadth-first order: the seed is first, and
\* of two shapes of the list the one fewer links away from the seed stands
\* before the other.
C21_BreadthFirstOrder ==
    trace.seed # 0 =>
        /\ trace.elements[1] = trace.seed
        /\ \A i, j \in 1..Len(trace.elements) :
              Hop(trace.elements[i]) < Hop(trace.elements[j]) => i < j

\* a net with shapes one and two links away in which a shape one link away
\* stands before a shape two links away that precedes it in the document
C21_Witness ==
    /\ trace.seed # 0
    /\ \E i, j \in 1..Len(trace.elements) :
          /\ i < j
          /\ Hop(trace.elements[i]) = 1
          /\ Hop(trace.elements[j]) = 2
          /\ trace.elements[j] < trace.elements[i]

(* ------------------------------------------------------------------ *)
(* The threshold (SpecThreshold)                                       *)
(* ------------------------------------------------------------------ *)

\* The line (0,-40)-(0,0) and a line of the given length from (dx,dy)
\* downwards: only the end of the first and the start of the second can be
\* close.
ThresholdDiagram(dx, dy, length) ==
    << Shape("line", UNDEFINED, "wire", NULL, <<0, -40, 0, 0>>, <<>>,
             "#333", "2", NULL),
       Shape("line", UNDEFINED, "wire", NULL, <<dx, dy, dx, dy + length>>, <<>>,
             "#333", "2", NULL) >>

ThresholdDiagrams ==
    {ThresholdDiagram(dx, dy, length) :
        dx \in 0..MaxOffset, dy \in 0..MaxOffset, length \in {40, 80}}

InitThreshold == Mounted(ThresholdDiagrams, {ComponentPool}) /\ Hosted /\ Booted

SpecThreshold == InitThreshold /\ [][NextTrace]_vars

\* the square of twice the distance of two points
SquaredDistance(p, q) ==
    (p[1] - q[1]) * (p[1] - q[1]) + (p[2] - q[2]) * (p[2] - q[2])

\* C22: two points are adjacent exactly when their distance is below 6
\* units, that is when the square of the distance is below 36 (144 for the
\* doubled coordinates); at distance 6 they are not; adjacency is symmetric
\* and the same for shapes of every size; and two lines are traced into one
\* net exactly when two of their points are adjacent.
C22_StrictThreshold ==
    /\ \A a, b \in Elems :
          \A p \in Range(getElementCoordinates(svg[a])),
             q \in Range(getElementCoordinates(svg[b])) :
              /\ arePointsClose(p, q) <=> SquaredDistance(p, q) < 4 * 36
              /\ arePointsClose(p, q) <=> arePointsClose(q, p)
    /\ trace.seed # 0 /\ Len(svg) = 2 =>
          (Len(trace.elements) = 2 <=>
              \E p \in Range(getElementCoordinates(svg[1])),
                 q \in Range(getElementCoordinates(svg[2])) :
                  SquaredDistance(p, q) < 4 * 36)

\* a trace that leaves out a line whose start is exactly 6 units from the
\* end of the seed
C22_Witness ==
    /\ trace.seed # 0
    /\ Len(svg) = 2
    /\ trace.elements = <<trace.seed>>
    /\ \E p \in Range(getElementCoordinates(svg[1])),
          q \in Range(getElementCoordinates(svg[2])) :
           SquaredDistance(p, q) = 4 * 36

\* the place in the list of the shape that discovered the k-th member: the
\* first member with a point within the threshold of one of its points
Discoverer(k) ==
    CHOOSE i \in 1..Len(trace.elements) :
        /\ Linked(trace.elements[i], trace.elements[k])
        /\ \A j \in 1..(i - 1) : ~Linked(trace.elements[j], trace.elements[k])

\* C28: a trace records one terminal for each shape discovered after the
\* seed, so one fewer than shapes returned; the terminal of a discovered
\* shape is a point of the shape that discovered it, a member standing
\* before it in the list, and lies within the threshold of a point of the
\* discovered shape.
C28_OneTerminalPerDiscovery ==
    trace.seed # 0 =>
        /\ Len(trace.terminals) = Len(trace.elements) - 1
        /\ \A k \in 2..Len(trace.elements) :
              LET x == trace.terminals[k - 1]
                  new == svg[trace.elements[k]]
                  by == Discoverer(k)
              IN  /\ by < k
                  /\ x \in Range(getElementCoordinates(svg[trace.elements[by]]))
                  /\ \E q \in Range(getElementCoordinates(new)) : Near(x, q)

\* a net of three or more shapes with a terminal that is no point of the
\* seed: its shape was discovered by a shape other than the seed
C28_Witness ==
    /\ trace.seed # 0
    /\ Len(trace.elements) >= 3
    /\ \E k \in 1..Len(trace.terminals) :
          trace.terminals[k] \notin Range(getElementCoordinates(svg[trace.seed]))

(* ------------------------------------------------------------------ *)
(* Repeating an additive click (Spec)                                  *)
(* ------------------------------------------------------------------ *)

\* C29: a click with shift or ctrl on a shape whose whole net is highlighted
\* already changes neither the highlighted set, nor the style of any shape,
\* nor the list of connection points.
C29_AdditiveIdempotent ==
    [][ \A t \in Elems :
          /\ ClickShape(t, TRUE)
          /\ Range(traceNet(t).elements) \subseteq Range(highlightedElements)
          => /\ highlightedElements' = highlightedElements
             /\ dom' = dom
             /\ connectionPoints' = connectionPoints
      ]_vars

\* the part of C29 on the highlighted set and the styles alone
C29_HighlightIdempotent ==
    [][ \A t \in Elems :
          /\ ClickShape(t, TRUE)
          /\ Range(traceNet(t).elements) \subseteq Range(highlightedElements)
          => /\ highlightedElements' = highlightedElements
             /\ NoDuplicates(highlightedElements')
             /\ dom' = dom
      ]_vars

(* ------------------------------------------------------------------ *)
(* authService over the storage of one browser (SpecAuth)              *)
(* ------------------------------------------------------------------ *)

\* the largest number of records the user store is let grow to
MaxUsers == 2

\* the e-mail addresses typed into the Login page
Emails == {"admin@kmrcl.com", "u1@kmrcl.com", "u2@kmrcl.com"}

\* the codes typed into the Login page and set on the Settings page
Codes == {ADMIN_CODE, "123456"}

\* the permissions the Settings page assigns: the Drive Browser alone
Assigned == { Permissions(TRUE, FALSE, FALSE, FALSE, FALSE, FALSE) }

\* Date.now().toString() at the signup that makes the n-th record
NewId(n) == <<"admin-001", "1700000000001", "1700000000002", "1700000000003",
              "1700000000004">>[n]

\* users.findIndex(u => u[field] === value), 0 for -1
FindIndex(us, field, value) ==
    IF \E k \in 1..Len(us) : us[k][field] = value
    THEN CHOOSE k \in 1..Len(us) :
            /\ us[k][field] = value
            /\ \A j \in 1..(k - 1) : us[j][field] # value
    ELSE 0

Called(op, arg, success) == [op |-> op, arg |-> arg, success |-> success]

\* handleLogin(result.user) of the tab the call was made from; the variable
\* user is the state of one tab, the calls of the other tabs of the browser
\* reach the same storage and leave that state alone
HandleLogin(here, loggedIn) ==
    IF here
    THEN user' = loggedIn /\ activeTab' = InitialTab(loggedIn)
    ELSE UNCHANGED <<user, activeTab>>

\* authService.loginAsAdmin(code), from a Login page
loginAsAdmin(code, here) ==
    /\ here => user = NoUser
    /\ LET storedCode == IF adminCode = "" THEN ADMIN_CODE ELSE adminCode
           adminIndex == FindIndex(users, "role", "ADMIN")
       IN  IF code = storedCode /\ adminIndex # 0
           THEN LET admin == [users[adminIndex] EXCEPT
                                 !.permissions = FULL_ADMIN_PERMISSIONS]
                IN  /\ users' = [users EXCEPT ![adminIndex] = admin]
                    /\ session' = admin
                    /\ HandleLogin(here, admin)
                    /\ lastCall' = Called("loginAsAdmin", code, TRUE)
           ELSE /\ lastCall' = Called("loginAsAdmin", code, FALSE)
                /\ UNCHANGED <<users, session, user, activeTab>>
    /\ codeSupplied' =
          (codeSupplied \/ code = (IF adminCode = "" THEN ADMIN_CODE ELSE adminCode))
    /\ UNCHANGED <<adminCode, isVoiceAgentOpen>>
    /\ UNCHANGED <<viewerVars, driveVars, voice>>

\* the mutant of loginAsUser: the status is not looked at
loginAsUserAnyStatus(email, here) ==
    /\ here => user = NoUser
    /\ LET userIndex == FindIndex(users, "email", email)
       IN  IF userIndex = 0
           THEN /\ lastCall' = Called("loginAsUser", email, FALSE)
                /\ UNCHANGED <<session, user, activeTab>>
           ELSE /\ session' = users[userIndex]
                /\ HandleLogin(here, users[userIndex])
                /\ lastCall' = Called("loginAsUser", email, TRUE)
    /\ UNCHANGED <<users, adminCode, codeSupplied,
                   isVoiceAgentOpen>>
    /\ UNCHANGED <<viewerVars, driveVars, voice>>

\* authService.loginAsUser(email), from a Login page; lastLogin is no part
\* of the records here, so the store it writes back is the store it read
loginAsUser(email, here) ==
    /\ here => user = NoUser
    /\ LET userIndex == FindIndex(users, "email", email)
       IN  IF \/ userIndex = 0
              \/ users[IF userIndex = 0 THEN 1 ELSE userIndex].status
                    \in {"PENDING", "REJECTED"}
           THEN /\ lastCall' = Called("loginAsUser", email, FALSE)
                /\ UNCHANGED <<session, user, activeTab>>
           ELSE /\ session' = users[userIndex]
                /\ HandleLogin(here, users[userIndex])
                /\ lastCall' = Called("loginAsUser", email, TRUE)
    /\ UNCHANGED <<users, adminCode, codeSupplied,
                   isVoiceAgentOpen>>
    /\ UNCHANGED <<viewerVars, driveVars, voice>>

\* the mutant of signup: the e-mail is not looked up
signupUnchecked(email, here) ==
    /\ here => user = NoUser
    /\ Len(users) < MaxUsers
    /\ users' = Append(users, UserRecord(NewId(Len(users) + 1), email, "USER",
                                         "PENDING", DEFAULT_USER_PERMISSIONS))
    /\ lastCall' = Called("signup", email, TRUE)
    /\ UNCHANGED <<session, user, activeTab, adminCode, codeSupplied,
                   isVoiceAgentOpen>>
    /\ UNCHANGED <<viewerVars, driveVars, voice>>

\* authService.signup(name, email, mobile), from a Login page
signup(email, here) ==
    /\ here => user = NoUser
    /\ IF \E k \in 1..Len(users) : users[k].email = email
       THEN /\ lastCall' = Called("signup", email, FALSE)
            /\ UNCHANGED users
       ELSE /\ Len(users) < MaxUsers
            /\ users' = Append(users,
                               UserRecord(NewId(Len(users) + 1), email, "USER",
                                          "PENDING", DEFAULT_USER_PERMISSIONS))
            /\ lastCall' = Called("signup", email, TRUE)
    /\ UNCHANGED <<session, user, activeTab, adminCode, codeSupplied,
                   isVoiceAgentOpen>>
    /\ UNCHANGED <<viewerVars, driveVars, voice>>

\* handleLogout of a tab that shows the application: authService.logout
logout(here) ==
    /\ here => user # NoUser
    /\ session' = NoUser
    /\ IF here THEN user' = NoUser ELSE UNCHANGED user
    /\ lastCall' = Called("logout", "", TRUE)
    /\ UNCHANGED <<users, activeTab, adminCode, codeSupplied,
                   isVoiceAgentOpen>>
    /\ UNCHANGED <<viewerVars, driveVars, voice>>

\* Settings page, shown with its user management to a tab whose user is an
\* administrator: handleApproveUser(id), handleRejectUser(id)
updateUserStatus(userId, status) ==
    /\ user # NoUser
    /\ user.role = "ADMIN"
    /\ users' = [k \in 1..Len(users) |->
                    IF users[k].id = userId
                    THEN [users[k] EXCEPT !.status = status]
                    ELSE users[k]]
    /\ lastCall' = Called("updateUserStatus", userId, TRUE)
    /\ UNCHANGED <<session, user, activeTab, adminCode, codeSupplied,
                   isVoiceAgentOpen>>
    /\ UNCHANGED <<viewerVars, driveVars, voice>>

\* Settings page: savePermissions
updateUserPermissions(userId, permissions) ==
    /\ user # NoUser
    /\ user.role = "ADMIN"
    /\ users' = [k \in 1..Len(users) |->
                    IF users[k].id = userId
                    THEN [users[k] EXCEPT !.permissions = permissions]
                    ELSE users[k]]
    /\ lastCall' = Called("updateUserPermissions", userId, TRUE)
    /\ UNCHANGED <<session, user, activeTab, adminCode, codeSupplied,
                   isVoiceAgentOpen>>
    /\ UNCHANGED <<viewerVars, driveVars, voice>>

\* Settings page: handleChangeAdminCode
changeAdminCode(newCode) ==
    /\ user # NoUser
    /\ user.role = "ADMIN"
    /\ newCode # adminCode
    /\ adminCode' = newCode
    /\ lastCall' = Called("changeAdminCode", newCode, TRUE)
    /\ UNCHANGED <<users, session, user, activeTab, codeSupplied,
                   isVoiceAgentOpen>>
    /\ UNCHANGED <<viewerVars, driveVars, voice>>

\* A browser that never held the application: authService.init has stored
\* the administrator and the code, no session is stored, and the tab shows
\* the Login page.
InitAuth ==
    /\ Mounted({<<>>}, {<<>>})
    /\ users = <<ADMIN_USER>>
    /\ session = NoUser
    /\ user = NoUser
    /\ activeTab = "dashboard"
    /\ isVoiceAgentOpen = FALSE
    /\ Booted

NextAuth ==
    \/ Reload
    \/ \E code \in Codes, here \in BOOLEAN : loginAsAdmin(code, here)
    \/ \E email \in Emails, here \in BOOLEAN : loginAsUser(email, here)
    \/ \E email \in Emails, here \in BOOLEAN : signup(email, here)
    \/ \E here \in BOOLEAN : logout(here)
    \/ \E k \in 1..Len(users), status \in {"APPROVED", "REJECTED"} :
          updateUserStatus(users[k].id, status)
    \/ \E k \in 1..Len(users), permissions \in Assigned :
          updateUserPermissions(users[k].id, permissions)
    \/ \E newCode \in Codes : changeAdminCode(newCode)

SpecAuth == InitAuth /\ [][NextAuth]_vars

\* C23: the stored session is an administrator's only after loginAsAdmin was
\* called with the stored admin code: no run in which the code is never
\* supplied makes getCurrentUser return a user of role ADMIN.
C23_AdminOnlyByCode ==
    (session # NoUser /\ session.role = "ADMIN") => codeSupplied

\* C24: the stored session of a user who is no administrator is the record
\* of a user whose status in the store is APPROVED, with the permissions the
\* store holds for that user now.
C24_SessionMatchesStore ==
    (session # NoUser /\ session.role # "ADMIN") =>
        \E k \in 1..Len(users) :
            /\ users[k].id = session.id
            /\ users[k].status = "APPROVED"
            /\ users[k].permissions = session.permissions

\* the part of C24 that the code keeps: the stored session is a record the
\* store holds under the same id, e-mail and role
C24_SessionOfStoredUser ==
    session # NoUser =>
        \E k \in 1..Len(users) :
            /\ users[k].id = session.id
            /\ users[k].email = session.email
            /\ users[k].role = session.role

\* the record loginAsUser finds for an e-mail is there and APPROVED
Approved(email) ==
    \E k \in 1..Len(users) :
        /\ users[k].email = email
        /\ \A j \in 1..(k - 1) : users[j].email # email
        /\ users[k].status = "APPROVED"

\* C27: loginAsUser succeeds exactly for the e-mail of a stored user whose
\* status is APPROVED; for an unknown, PENDING or REJECTED user it returns an
\* error and changes neither the store nor the stored session; signup stores
\* the user as PENDING, and a status becomes APPROVED by updateUserStatus on
\* that user only.
C27_LoginOnlyApproved ==
    [][ /\ \A email \in Emails, here \in BOOLEAN :
              loginAsUser(email, here) =>
                  IF Approved(email)
                  THEN /\ lastCall'.success
                       /\ session'.email = email
                  ELSE /\ ~lastCall'.success
                       /\ users' = users
                       /\ session' = session
                       /\ user' = user
        /\ \A k \in 1..Len(users') :
              (users'[k].status = "APPROVED"
                  /\ (k > Len(users) \/ users[IF k > Len(users) THEN 1 ELSE k].status # "APPROVED"))
              => /\ k <= Len(users)
                 /\ lastCall' = Called("updateUserStatus", users[IF k > Len(users) THEN 1 ELSE k].id, TRUE)
      ]_vars

\* a user who signed up was refused while PENDING
C27_Witness ==
    /\ lastCall = Called("loginAsUser", "u1@kmrcl.com", FALSE)
    /\ Len(users) = 2
    /\ users[2].email = "u1@kmrcl.com"
    /\ users[2].status = "PENDING"

\* and signed in once approved
C27_WitnessApproved ==
    /\ lastCall = Called("loginAsUser", "u1@kmrcl.com", TRUE)
    /\ session # NoUser
    /\ session.email = "u1@kmrcl.com"

Unique(us) == \A i, j \in 1..Len(us) : i # j => us[i].email # us[j].email

\* C30: the e-mails of the user store are pairwise different; signup with a
\* registered e-mail returns an error and leaves the store unchanged; a
\* successful signup appends one user of role USER, status PENDING and no
\* permission.
C30_UniqueEmails ==
    [][ /\ Unique(users')
        /\ \A email \in Emails, here \in BOOLEAN :
              signup(email, here) =>
                  IF \E k \in 1..Len(users) : users[k].email = email
                  THEN /\ ~lastCall'.success
                       /\ users' = users
                  ELSE /\ lastCall'.success
                       /\ Len(users') = Len(users) + 1
                       /\ SubSeq(users', 1, Len(users)) = users
                       /\ users'[Len(users')].email = email
                       /\ users'[Len(users')].role = "USER"
                       /\ users'[Len(users')].status = "PENDING"
                       /\ users'[Len(users')].permissions = DEFAULT_USER_PERMISSIONS
      ]_vars

\* a second signup with the e-mail of a registered user was refused
C30_Witness ==
    /\ lastCall.op = "signup"
    /\ ~lastCall.success
    /\ Len(users) = 2
    /\ users[2].email = lastCall.arg

(* ------------------------------------------------------------------ *)
(* driveService.fetchDriveFiles (SpecSync)                             *)
(* ------------------------------------------------------------------ *)

\* what safeFetch resolves to: a response that is ok, one that is not, null
Responses == {"ok", "notOk", "null"}

\* what response.json() gives: a list of files (bare or under files),
\* something else, a rejection
Payloads == {"array", "other", "throws"}

\* syncState = { ...syncState, status: 'SYNCING' }
Syncing(s) == [s EXCEPT !.status = "SYNCING"]

\* the url is no http url: no request is made
NoApiUrl(s) == [s EXCEPT !.status = "IDLE", !.message = "No API URL"]

\* after await safeFetch(...): a missing or failed response ends the sync
Responded(s, response) ==
    IF response = "ok" THEN s
    ELSE [s EXCEPT !.status = "ERROR", !.message = "HTTP"]

\* after await response.json()
Parsed(s, data) ==
    CASE data = "array" ->
            [status |-> "SUCCESS", lastSynced |-> "date", message |-> ""]
      [] data = "other" ->
            [s EXCEPT !.status = "ERROR", !.message = "Invalid Format"]
      [] OTHER ->
            [s EXCEPT !.status = "ERROR", !.message = "Network Error"]

\* a page calls fetchDriveFiles(folderId): the call runs to its first await
FetchDriveFiles(c, validUrl) ==
    /\ calls[c] = "idle"
    /\ IF validUrl
       THEN /\ syncState' = Syncing(syncState)
            /\ calls' = [calls EXCEPT ![c] = "fetch"]
       ELSE /\ syncState' = NoApiUrl(Syncing(syncState))
            /\ UNCHANGED calls
    /\ UNCHANGED <<viewerVars, appVars, authVars, voice>>

\* safeFetch resolves for call c
FetchDone(c, response) ==
    /\ calls[c] = "fetch"
    /\ syncState' = Responded(syncState, response)
    /\ calls' = [calls EXCEPT ![c] = IF response = "ok" THEN "json" ELSE "idle"]
    /\ UNCHANGED <<viewerVars, appVars, authVars, voice>>

\* response.json() settles for call c; the rest of the call has no await
JsonDone(c, data) ==
    /\ calls[c] = "json"
    /\ syncState' = Parsed(syncState, data)
    /\ calls' = [calls EXCEPT ![c] = "idle"]
    /\ UNCHANGED <<viewerVars, appVars, authVars, voice>>

InitSync == Mounted({<<>>}, {<<>>}) /\ Hosted /\ Booted

NextSync ==
    \/ \E c \in 1..MaxCalls, validUrl \in BOOLEAN : FetchDriveFiles(c, validUrl)
    \/ \E c \in 1..MaxCalls, response \in Responses : FetchDone(c, response)
    \/ \E c \in 1..MaxCalls, data \in Payloads : JsonDone(c, data)

SpecSync == InitSync /\ [][NextSync]_vars

InFlight == {c \in 1..MaxCalls : calls[c] # "idle"}

\* C26: the sync status is SYNCING whenever a call of fetchDriveFiles is in
\* flight, and is not SYNCING when none is.
C26_StatusTracksCalls ==
    /\ InFlight # {} => syncState.status = "SYNCING"
    /\ InFlight = {} => syncState.status # "SYNCING"

\* the part of C26 the code keeps: with no call in flight the status is not
\* SYNCING, and a single call in flight shows as SYNCING until it ends
C26_NotSyncingWhenIdle ==
    InFlight = {} => syncState.status # "SYNCING"

(* ------------------------------------------------------------------ *)
(* VoiceAgent and VoiceAgentService (SpecVoice)                        *)
(* ------------------------------------------------------------------ *)

\* the number of times the panel is opened
MaxSessions == 2

\* setStatus(s), reached directly or through onStatusChange
SetStatus(v, s) == [v EXCEPT !.status = s]

\* VoiceAgentService.cleanup of service t: the audio contexts are closed, the
\* tracks of the stream are stopped, and the fields are set to null
cleanup(v, t) ==
    [v EXCEPT !.contexts = @ \ {v.services[t].inputAudioContext},
              !.mics = @ \ {v.services[t].mediaStream},
              !.services[t].inputAudioContext = 0,
              !.services[t].mediaStream = 0]

\* disconnect of service t has to wait: its sessionPromise is not settled
Suspends(v, t) ==
    IF v.services[t].sessionPromise = 0 THEN FALSE
    ELSE v.live[v.services[t].sessionPromise] = "pending"

\* VoiceAgentService.disconnect of service t, as far as it runs without
\* waiting for the network: cleanup, then with a sessionPromise that is
\* settled the session is closed and the field set to null
disconnect(v, t) ==
    LET c == cleanup(v, t)
        h == v.services[t].sessionPromise
    IN  IF h = 0 THEN c
        ELSE IF Suspends(v, t) THEN [c EXCEPT !.waiting = @ \cup {<<t, h>>}]
        ELSE [c EXCEPT !.live[h] = IF @ = "open" THEN "closing" ELSE @,
                       !.services[t].sessionPromise = 0]

\* endSession after its await
Ended(v) == [v EXCEPT !.serviceRef = 0, !.status = "idle"]

\* endSession, as far as it runs without waiting for the network
endSession(v) ==
    IF v.serviceRef = 0 THEN SetStatus(v, "idle")
    ELSE IF Suspends(v, v.serviceRef) THEN disconnect(v, v.serviceRef)
    ELSE Ended(disconnect(v, v.serviceRef))

\* the calls of disconnect that waited for sessionPromise h resume: each
\* closes the session and sets the field to null, then its endSession ends
Woken(v, h) ==
    LET ws == {w \in v.waiting : w[2] = h} IN
    IF ws = {} THEN v
    ELSE Ended([v EXCEPT
                  !.waiting = @ \ ws,
                  !.live[h] = IF @ = "open" THEN "closing" ELSE @,
                  !.services = [t \in 1..Len(v.services) |->
                      IF <<t, h>> \in ws
                      THEN [v.services[t] EXCEPT !.sessionPromise = 0]
                      ELSE v.services[t]]])

\* startSession n after await fetchDriveFiles, up to the await of
\* getUserMedia in connect: the callbacks are set on serviceRef.current,
\* which throws when that is null; connect throws without an API key, else
\* sets 'connecting' and makes the audio contexts
Resume(v, n, apiKey) ==
    IF v.serviceRef = 0 \/ ~apiKey
    THEN [v EXCEPT !.status = "error", !.starts[n].pc = "done"]
    ELSE [v EXCEPT !.status = "connecting",
                   !.services[v.serviceRef].inputAudioContext = n,
                   !.contexts = @ \cup {n},
                   !.starts[n] = [pc |-> "mic", on |-> v.serviceRef]]

\* The panel is opened (onToggleVoice): the cleanup of the effect runs
\* endSession, the effect runs startSession to the await in
\* fetchDriveFiles; an endSession that did not have to wait ends after that.
\* Without a valid url fetchDriveFiles makes no request and startSession
\* goes on at once.
OpenPanel(validUrl, apiKey) ==
    /\ user # NoUser
    /\ ~isVoiceAgentOpen
    /\ Len(voice.starts) < MaxSessions
    /\ isVoiceAgentOpen' = TRUE
    /\ LET n == Len(voice.starts) + 1
           waits == IF voice.serviceRef = 0 THEN FALSE
                    ELSE Suspends(voice, voice.serviceRef)
           e == IF voice.serviceRef = 0 THEN SetStatus(voice, "idle")
                ELSE disconnect(voice, voice.serviceRef)
           s == [e EXCEPT !.status = "connecting",
                          !.serviceRef = n,
                          !.starts = Append(@, [pc |-> "fetch", on |-> 0]),
                          !.services = Append(@, [inputAudioContext |-> 0,
                                                  mediaStream |-> 0,
                                                  sessionPromise |-> 0]),
                          !.live = Append(@, "none"),
                          !.closedEarly = FALSE]
           m == IF voice.serviceRef # 0 /\ ~waits THEN Ended(s) ELSE s
       IN  IF validUrl
           THEN /\ syncState' = Syncing(syncState)
                /\ voice' = m
           ELSE /\ syncState' = NoApiUrl(Syncing(syncState))
                /\ voice' = Resume(m, n, apiKey)
    /\ UNCHANGED <<users, session, user, activeTab, calls>>
    /\ UNCHANGED <<viewerVars, authVars>>

\* The panel is closed (onClose, the microphone button): the cleanup of the
\* effect and the effect both run endSession.
ClosePanel ==
    /\ isVoiceAgentOpen
    /\ isVoiceAgentOpen' = FALSE
    /\ voice' = [endSession(endSession(voice)) EXCEPT
                    !.closedEarly = \E n \in 1..Len(voice.starts) :
                                        voice.starts[n].pc # "done"]
    /\ UNCHANGED <<users, session, user, activeTab, driveVars>>
    /\ UNCHANGED <<viewerVars, authVars>>

\* safeFetch resolves for the refresh of startSession n
Refreshed(n, response, apiKey) ==
    /\ voice.starts[n].pc = "fetch"
    /\ syncState' = Responded(syncState, response)
    /\ voice' = IF response = "ok"
                THEN [voice EXCEPT !.starts[n].pc = "json"]
                ELSE Resume(voice, n, apiKey)
    /\ UNCHANGED <<appVars, viewerVars, authVars, calls>>

\* response.json() settles for the refresh of startSession n
RefreshParsed(n, data, apiKey) ==
    /\ voice.starts[n].pc = "json"
    /\ syncState' = Parsed(syncState, data)
    /\ voice' = Resume(voice, n, apiKey)
    /\ UNCHANGED <<appVars, viewerVars, authVars, calls>>

\* getUserMedia settles for the connect of startSession n: with the stream
\* the live connection is requested; a refusal goes through the catch of
\* connect (error, cleanup) and the catch of startSession
MicDone(n, granted) ==
    /\ voice.starts[n].pc = "mic"
    /\ LET t == voice.starts[n].on IN
       voice' = IF granted
                THEN [voice EXCEPT !.services[t].mediaStream = n,
                                   !.mics = @ \cup {n},
                                   !.services[t].sessionPromise = n,
                                   !.live[n] = "pending",
                                   !.starts[n].pc = "live"]
                ELSE [cleanup(voice, t) EXCEPT !.status = "error",
                                               !.starts[n].pc = "done"]
    /\ UNCHANGED <<appVars, viewerVars, authVars, driveVars>>

\* the live connection of startSession n opens: onopen sets 'connected',
\* connect returns, and the calls of disconnect that waited resume
SessionOpened(n) ==
    /\ voice.live[n] = "pending"
    /\ voice' = Woken([voice EXCEPT !.live[n] = "open",
                                    !.status = "connected",
                                    !.starts[n].pc = "done"], n)
    /\ UNCHANGED <<appVars, viewerVars, authVars, driveVars>>

\* the live connection of startSession n fails: the catch of connect
\* (error, cleanup), the catch of startSession, then the waiting calls
SessionFailed(n) ==
    /\ voice.live[n] = "pending"
    /\ voice' = Woken([cleanup(voice, voice.starts[n].on) EXCEPT
                          !.live[n] = "failed",
                          !.status = "error",
                          !.starts[n].pc = "done"], n)
    /\ UNCHANGED <<appVars, viewerVars, authVars, driveVars>>

\* onclose of the live session of startSession n, closed by session.close()
\* or by the server
SessionClosed(n) ==
    /\ voice.live[n] \in {"open", "closing"}
    /\ voice' = [cleanup(voice, voice.starts[n].on) EXCEPT
                    !.live[n] = "closed",
                    !.status = "idle"]
    /\ UNCHANGED <<appVars, viewerVars, authVars, driveVars>>

InitVoice == Mounted({<<>>}, {<<>>}) /\ Hosted /\ Booted

NextVoice ==
    \/ \E validUrl, apiKey \in BOOLEAN : OpenPanel(validUrl, apiKey)
    \/ ClosePanel
    \/ \E n \in 1..Len(voice.starts), response \in Responses, apiKey \in BOOLEAN :
          Refreshed(n, response, apiKey)
    \/ \E n \in 1..Len(voice.starts), data \in Payloads, apiKey \in BOOLEAN :
          RefreshParsed(n, data, apiKey)
    \/ \E n \in 1..Len(voice.starts), granted \in BOOLEAN : MicDone(n, granted)
    \/ \E n \in 1..Len(voice.starts) : SessionOpened(n)
    \/ \E n \in 1..Len(voice.starts) : SessionFailed(n)
    \/ \E n \in 1..Len(voice.starts) : SessionClosed(n)

SpecVoice == InitVoice /\ [][NextVoice]_vars

\* no step of startSession, of disconnect or of a live session is pending
Quiescent(v) ==
    /\ \A n \in 1..Len(v.starts) : v.starts[n].pc = "done"
    /\ \A n \in 1..Len(v.live) : v.live[n] \notin {"pending", "closing"}
    /\ v.waiting = {}

\* a VoiceAgentService holds audio contexts, a microphone stream or a live
\* session
Held(v) ==
    \E t \in 1..Len(v.services) :
        \/ v.services[t].inputAudioContext # 0
        \/ v.services[t].mediaStream # 0
        \/ IF v.services[t].sessionPromise = 0 THEN FALSE
           ELSE v.live[v.services[t].sessionPromise] = "open"

\* C25: when the panel was closed while startSession was in progress, then
\* with the panel still closed and nothing pending no VoiceAgentService holds
\* a live session, a microphone stream or an audio context, and the status
\* is 'idle'.
C25_ClosedEarlyReleases ==
    (voice.closedEarly /\ ~isVoiceAgentOpen /\ Quiescent(voice)) =>
        (~Held(voice) /\ voice.status = "idle")

\* the part of C25 the code keeps: a panel closed after startSession had
\* finished, on the first opening, ends idle with nothing held
C25_ClosedLateReleases ==
    (Len(voice.starts) = 1 /\ ~voice.closedEarly /\ ~isVoiceAgentOpen
        /\ Quiescent(voice)) =>
        (~Held(voice) /\ voice.status = "idle")

====
